---- MODULE Spec2Model ----
(***************************************************************************)
(* Model of the UART link layer of the smart-lock Wi-Fi module             *)
(* (src/main/uart): the byte-stream framer and checksum of                 *)
(* net_uart_comm.c, the network status tracker net_sta.c, the state-report *)
(* retransmission layer state_report.c and the remote-unlock correlator    *)
(* unlock.c.  Each component has its own specification over the shared     *)
(* variables; the variables of the other components stay at their initial  *)
(* values.                                                                 *)
(***************************************************************************)
EXTENDS Integers, Sequences, FiniteSets, TLC

(***************************************************************************)
(* Bounds of the model.                                                    *)
(***************************************************************************)
\* longest chunk one UART_DATA event delivers on a free-running byte stream
MaxChunk == 2
\* ticks the model divides UNLOCK_RESPONSE_TIMEOUT_MS into
UnlockTimerTicks == 2
\* 0x13 commands the MCU may leave unanswered before the callers stop
MaxUnanswered == 2
\* calls of state_report_upload in one run
MaxUploads == 2
\* retransmit-task periods the clock runs before timestamps are kept relative
ClockWindow == 4
\* nested calls of cc_event_reset the model follows
MaxCcDepth == 4
\* items of the backlog the retransmit task scans
MaxScanItems == 3

(***************************************************************************)
(* Program constants.                                                      *)
(***************************************************************************)
HEADER0 == 170
HEADER1 == 85
CMD_WIFI_CONFIG == 1
CMD_NETWORK_STATUS == 35
CMD_STATE_REPORT_ACK == 67
PACKET_SIZE == 10
CMD_STATE_REPORT == 66
STATE_REPORT_TIMEOUT_MS == 100
STATE_REPORT_MAX_RETRIES == 3
STATE_REPORT_RETX_TASK_DELAY_MS == 50
CMD_WIFI_RESPONSE == 2
CMD_CLEAR_DATA == 5
CMD_GET_DEVICE_INFO == 6
CMD_GET_DEVICE_INFO_RSP == 7
CMD_GET_NETWORK_TIME == 16
CMD_GET_NETWORK_TIME_RSP == 17
CMD_EXIT_CONFIG == 26
CMD_REMOTE_UNLOCK == 19
CMD_REMOTE_UNLOCK_ACK == 18
NET_STATUS_NOT_CONFIGURED == 1
NET_STATUS_CONNECTING_ROUTER == 2
NET_STATUS_CONNECTED_ROUTER == 3
NET_STATUS_CONNECTED_SERVER == 4

VARIABLES
    \* uart_event_task (net_uart_comm.c)
    state,          \* framer state, 0..9
    packet,         \* the packet under assembly, as its 10 bytes
    rx_ring,        \* bytes in the driver's receive buffer, not yet read
    dispatched,     \* packets handed to uart_packet_received_internal by the latest event
    scenario,       \* what the MCU transmits in this run
    flushed,        \* TRUE once a flush discarded received bytes
    \* uart_comm_send_packet (net_uart_comm.c)
    tx_out,         \* packets passed to uart_comm_send_packet by the latest step
    \* get_time.c
    s_utc_time,     \* cached UTC seconds, 0 until a time update succeeds
    s_time_zone,    \* cached timezone code, int8_t
    \* net_sta.c
    current_status,
    timer_5s,       \* "NULL", "active" or "dormant"
    timer_12s,
    net_registered, \* net_sta_event_handler is registered for the events
    net_call,       \* the net_sta operation of the latest step
    \* unlock.c
    s_unlock_in_progress,
    s_current_user_type,
    s_current_user_id,
    s_unlock_timer,     \* ticks left until unlockTimer expires, 0 when it is not running
    unlock_pc,          \* where each calling task is in unlock_send_remote_unlock_to_mcu
    unlock_arg,         \* its arguments <<user_type, user_id>>
    unlock_ret,         \* the value its latest call returned
    ack_pc,             \* where the receive task is in unlock_handle_mcu_packet
    cb_pc,              \* where the timer task is in unlock_timeout_cb
    mcu_unanswered,     \* 0x13 commands the MCU has received and not answered
    outstanding,        \* 0x13 commands sent and neither acknowledged nor timed out
    \* state_report.c
    s_pending_list,     \* the linked list, head first
    clock,              \* what cc_hal_sys_get_ms returns, in ms
    retx_pc,            \* where state_report_retx_task is in its loop
    retx_now,           \* its local now
    upload_pc,          \* where the calling task is in state_report_upload
    upload_item,        \* the request it is serving
    upload_ret,         \* the value its latest call returned
    uploads,            \* calls of state_report_upload made so far
    sent,               \* per request, the 0x42 packets handed to the UART with success
    fate,               \* per request, what became of its item
    wire,               \* requests whose packet the MCU holds unanswered
    acked,              \* requests whose packet the MCU has answered with 0x43
    s_state_report_mutex,   \* "free" or the task that holds the mutex
    lock_pc,            \* where each task is between xSemaphoreTake and xSemaphoreGive
    list_access,        \* the task that read or wrote the list in the latest step
    \* msg_upload.c
    s_remote_req_in_progress,
    s_remote_req_timer,     \* "dormant" or "active"
    s_unlocked_in_progress,
    s_unlocked_timer,       \* "dormant" or "active"
    mqtt_out,               \* payloads passed to gs_mqtt_publish by the latest step
    \* the dispatcher of net_uart_comm.c
    s_packet_callback,  \* "NULL" or the registered callback
    clear_data_mutex,   \* "free" or "held"
    nvs,                \* the persistent storage: "intact", "erased" or "ready"
    running,            \* FALSE once esp_restart has been called
    handlers,           \* the handlers the latest dispatch invoked, in order
    \* cc_event_reset.c
    cc_current_state,   \* g_cc_state.current_state
    cc_state_mutex,     \* g_cc_state.state_mutex: "NULL", "free" or the task that holds it
    cc_is_initialized,  \* g_cc_state.is_initialized
    cc_stack,           \* where each active call of cc_event_reset is, outermost first
    cc_ret,             \* the value the latest call of cc_event_reset returned
    cc_set_pc,          \* where the task that calls cc_event_set_state is
    cc_set_arg,         \* its argument new_state
    \* net_sta_update_status called from two tasks
    upd_pc,             \* where each task is inside net_sta_update_status
    upd_status,         \* its argument status
    last_notified       \* data[0] of the latest 0x23 packet the UART accepted, 0 if none

framerVars == <<state, packet, rx_ring, dispatched, scenario, flushed>>
timeVars == <<s_utc_time, s_time_zone>>
netVars == <<current_status, timer_5s, timer_12s, net_registered, net_call>>

unlockVars == <<s_unlock_in_progress, s_current_user_type, s_current_user_id,
                s_unlock_timer, unlock_pc, unlock_arg, unlock_ret, ack_pc, cb_pc,
                mcu_unanswered, outstanding>>

reportVars == <<s_pending_list, clock, retx_pc, retx_now, upload_pc, upload_item,
                upload_ret, uploads, sent, fate, wire, acked>>

lockVars == <<s_state_report_mutex, lock_pc, list_access>>

msgVars == <<s_remote_req_in_progress, s_remote_req_timer, s_unlocked_in_progress,
             s_unlocked_timer, mqtt_out>>

dispatchVars == <<s_packet_callback, clear_data_mutex, nvs, running, handlers>>

ccVars == <<cc_current_state, cc_state_mutex, cc_is_initialized, cc_stack, cc_ret,
            cc_set_pc, cc_set_arg>>

raceVars == <<upd_pc, upd_status, last_notified>>

vars == <<framerVars, tx_out, timeVars, netVars, unlockVars, reportVars, lockVars,
          msgVars, dispatchVars, ccVars, raceVars>>

(***************************************************************************)
(* Packet codec.                                                           *)
(***************************************************************************)
Byte == 0..255

RECURSIVE Sum16(_, _)
\* uint16_t sum accumulated over the first length bytes
Sum16(data, length) ==
    IF length = 0 THEN 0 ELSE (Sum16(data, length - 1) + data[length]) % 65536

\* a checksum that keeps the low 7 bits of the sum
uart_comm_calc_checksum7(data, length) == Sum16(data, length) % 128

uart_comm_calc_checksum(data, length) == Sum16(data, length) % 256

\* a packet whose checksum byte is left at 0
BuildPacketNoChecksum(cmd, data) == <<HEADER0, HEADER1, cmd>> \o data \o <<0>>

\* a packet with command cmd and payload data, checksum over its first 9 bytes
BuildPacket(cmd, data) ==
    LET body == <<HEADER0, HEADER1, cmd>> \o data
    IN  body \o <<uart_comm_calc_checksum(body, PACKET_SIZE - 1)>>

PktCommand(p) == p[3]
PktData(p) == SubSeq(p, 4, 9)
PktChecksum(p) == p[10]

(***************************************************************************)
(* uart_comm_send_packet: one uart_write_bytes call of the whole packet,   *)
(* which returns < 0 (ok = FALSE) or the length written.  The entry of     *)
(* tx_out it makes.                                                        *)
(***************************************************************************)
uart_comm_send_packet(p, ok) == [pkt |-> p, ok |-> ok]

\* little-endian bytes of a 32-bit value
LE32(v) == <<v % 256, (v \div 256) % 256, (v \div 65536) % 256, (v \div 16777216) % 256>>

\* (uint8_t) of an int8_t
U8(v) == v % 256

(***************************************************************************)
(* Byte-stream framer: one byte through the state machine of               *)
(* uart_event_task.  f is [state, packet, out]; out collects the packets   *)
(* passed to uart_packet_received_internal.                                *)
(***************************************************************************)
\* ChecksumOk with the comparison left out
ChecksumAcceptAll(p) == TRUE

ChecksumOk(p) == uart_comm_calc_checksum(p, PACKET_SIZE - 1) = PktChecksum(p)

\* FramerByte without the return to state 0 after a checksum mismatch
FramerByteStuck(f, b) ==
    CASE f.state = 0 ->
            IF b = HEADER0
            THEN [f EXCEPT !.packet[1] = b, !.state = 1]
            ELSE f
      [] f.state = 1 ->
            IF b = HEADER1
            THEN [f EXCEPT !.packet[2] = b, !.state = 2]
            ELSE [f EXCEPT !.state = 0]
      [] f.state = 2 -> [f EXCEPT !.packet[3] = b, !.state = 3]
      [] f.state \in 3..8 -> [f EXCEPT !.packet[f.state + 1] = b, !.state = f.state + 1]
      [] f.state = 9 ->
            LET p == [f.packet EXCEPT ![10] = b]
            IN  IF ChecksumOk(p)
                THEN [state |-> 0, packet |-> p, out |-> Append(f.out, p)]
                ELSE [state |-> 9, packet |-> p, out |-> f.out]
      [] OTHER -> [f EXCEPT !.state = 0]

FramerByte(f, b) ==
    CASE f.state = 0 ->
            IF b = HEADER0
            THEN [f EXCEPT !.packet[1] = b, !.state = 1]
            ELSE f
      [] f.state = 1 ->
            IF b = HEADER1
            THEN [f EXCEPT !.packet[2] = b, !.state = 2]
            ELSE [f EXCEPT !.state = 0]
      [] f.state = 2 -> [f EXCEPT !.packet[3] = b, !.state = 3]
      [] f.state \in 3..8 -> [f EXCEPT !.packet[f.state + 1] = b, !.state = f.state + 1]
      [] f.state = 9 ->
            LET p == [f.packet EXCEPT ![10] = b]
            IN  [state |-> 0, packet |-> p,
                 out |-> IF ChecksumOk(p) THEN Append(f.out, p) ELSE f.out]
      [] OTHER -> [f EXCEPT !.state = 0]

RECURSIVE FramerRun(_, _)
\* the for loop over the bytes of one chunk
FramerRun(f, chunk) ==
    IF chunk = <<>> THEN f
    ELSE FramerRun(FramerByte(f, Head(chunk)), Tail(chunk))

(***************************************************************************)
(* uart_event_task: one event taken from uart_event_queue.                 *)
(***************************************************************************)
\* uart_event_DATA with the framer state local to one event
uart_event_DATA_local_state(chunk) ==
    LET f == FramerRun([state |-> 0, packet |-> packet, out |-> <<>>], chunk)
    IN  /\ state' = f.state
        /\ packet' = f.packet
        /\ dispatched' = f.out

\* case UART_DATA with the bytes uart_read_bytes returned
uart_event_DATA(chunk) ==
    LET f == FramerRun([state |-> state, packet |-> packet, out |-> <<>>], chunk)
    IN  /\ state' = f.state
        /\ packet' = f.packet
        /\ dispatched' = f.out

\* the MCU's bytes are in the receive buffer; an event of size n reads n of them
UartData ==
    \E n \in 1..Len(rx_ring) :
        /\ uart_event_DATA(SubSeq(rx_ring, 1, n))
        /\ rx_ring' = SubSeq(rx_ring, n + 1, Len(rx_ring))
        /\ UNCHANGED <<scenario, flushed>>

\* UartFlush with the framer restarted: the partial packet is abandoned
UartFlushRestart ==
    /\ rx_ring' = <<>>
    /\ flushed' = (flushed \/ rx_ring # <<>>)
    /\ dispatched' = <<>>
    /\ state' = 0
    /\ UNCHANGED <<packet, scenario>>

\* case UART_FIFO_OVF, case UART_BUFFER_FULL: uart_flush_input, xQueueReset
UartFlush ==
    /\ rx_ring' = <<>>
    /\ flushed' = (flushed \/ rx_ring # <<>>)
    /\ dispatched' = <<>>
    /\ UNCHANGED <<state, packet, scenario>>

\* case UART_BREAK, UART_PARITY_ERR, UART_FRAME_ERR, default: logged only
UartOtherEvent ==
    /\ dispatched' = <<>>
    /\ UNCHANGED <<state, packet, rx_ring, scenario, flushed>>

(***************************************************************************)
(* Scenario runs: the MCU transmits one prepared byte stream, which the    *)
(* driver hands to the task in chunks of any sizes.                        *)
(***************************************************************************)
ScenarioCmds == {CMD_WIFI_CONFIG, CMD_STATE_REPORT_ACK}
PayloadBytes == {0, HEADER1, HEADER0}
\* payloads tried: bytes 1, 2, 3 and 6 range over PayloadBytes, bytes 4 and 5 are 0
Payloads == { d \in [1..6 -> PayloadBytes] : d[4] = 0 /\ d[5] = 0 }
ZeroPayload == <<0, 0, 0, 0, 0, 0>>

\* seq with byte b inserted before position k
InsertAt(seq, k, b) == SubSeq(seq, 1, k - 1) \o <<b>> \o SubSeq(seq, k, Len(seq))

FrameScenarios ==
    { [kind |-> "frame", frame |-> BuildPacket(c, d), stream |-> BuildPacket(c, d), at |-> 0] :
        c \in ScenarioCmds, d \in Payloads }

\* a frame with a spurious 0xAA inserted before payload byte k (stream position
\* at = 3 + k), immediately followed by a well-formed frame
ResyncScenarios ==
    { [kind |-> "resync", frame |-> BuildPacket(CMD_WIFI_CONFIG, ZeroPayload),
       stream |-> InsertAt(BuildPacket(CMD_WIFI_CONFIG, d), 3 + k, HEADER0)
                    \o BuildPacket(CMD_WIFI_CONFIG, ZeroPayload),
       at |-> 3 + k] :
        d \in Payloads, k \in 1..6 }

\* what the uninitialised local packet may hold
GarbagePackets == {[i \in 1..PACKET_SIZE |-> 0], [i \in 1..PACKET_SIZE |-> 255]}

\* the components a specification leaves alone stay as they are constructed
InitTime == s_utc_time = 0 /\ s_time_zone = 0

InitNet ==
    /\ current_status = NET_STATUS_NOT_CONFIGURED
    /\ timer_5s = "NULL"
    /\ timer_12s = "NULL"
    /\ net_registered = FALSE
    /\ net_call = [op |-> "none", arg |-> "none", req |-> 0]

\* msg_upload_init has run: both timers created and not started
InitMsg ==
    /\ s_remote_req_in_progress = FALSE
    /\ s_remote_req_timer = "dormant"
    /\ s_unlocked_in_progress = FALSE
    /\ s_unlocked_timer = "dormant"
    /\ mqtt_out = <<>>

\* uart_comm_init has run: no callback registered, the clear-data mutex created
InitDispatch ==
    /\ s_packet_callback = "NULL"
    /\ clear_data_mutex = "free"
    /\ nvs = "intact"
    /\ running = TRUE
    /\ handlers = <<>>

\* the static initialiser of g_cc_state, cc_event_reset.c lines 21-29
InitCc ==
    /\ cc_current_state = "CC_STATE_INIT"
    /\ cc_state_mutex = "NULL"
    /\ cc_is_initialized = FALSE
    /\ cc_stack = <<>>
    /\ cc_ret = "none"
    /\ cc_set_pc = "idle"
    /\ cc_set_arg = "CC_STATE_INIT"

UpdateTasks == {"wifi", "mqtt"}

\* no task is inside net_sta_update_status and no notification has been sent
InitRace ==
    /\ upd_pc = [t \in UpdateTasks |-> "idle"]
    /\ upd_status = [t \in UpdateTasks |-> 0]
    /\ last_notified = 0

UnlockTasks == {"task1", "task2"}

\* unlock_init has run: state cleared, timer created and not started
InitUnlock ==
    /\ s_unlock_in_progress = FALSE
    /\ s_current_user_type = 0
    /\ s_current_user_id = 0
    /\ s_unlock_timer = 0
    /\ unlock_pc = [t \in UnlockTasks |-> "idle"]
    /\ unlock_arg = [t \in UnlockTasks |-> <<0, 0>>]
    /\ unlock_ret = [t \in UnlockTasks |-> "none"]
    /\ ack_pc = "idle"
    /\ cb_pc = "idle"
    /\ mcu_unanswered = 0
    /\ outstanding = 0

Requests == 1..MaxUploads
LockTasks == {"upload", "rx", "retx"}
NoItem == [id |-> 0, state_type |-> 0, state_value |-> 0]

\* state_report_init has run: empty list, retransmit task in its first delay
InitReport ==
    /\ s_pending_list = <<>>
    /\ clock = 0
    /\ retx_pc = "delay"
    /\ retx_now = 0
    /\ upload_pc = "idle"
    /\ upload_item = NoItem
    /\ upload_ret = "none"
    /\ uploads = 0
    /\ sent = [id \in Requests |-> 0]
    /\ fate = [id \in Requests |-> "none"]
    /\ wire = {}
    /\ acked = {}
    /\ s_state_report_mutex = "free"
    /\ lock_pc = [t \in LockTasks |-> "idle"]
    /\ list_access = "none"

InitFramer ==
    /\ tx_out = <<>> /\ InitTime /\ InitNet /\ InitUnlock /\ InitReport /\ InitMsg /\ InitDispatch /\ InitCc /\ InitRace
    /\ state = 0
    /\ packet \in GarbagePackets
    /\ scenario \in FrameScenarios \cup ResyncScenarios
    /\ rx_ring = scenario.stream
    /\ dispatched = <<>>
    /\ flushed = FALSE

OthersOfFramer == <<raceVars, ccVars, tx_out, timeVars, netVars, unlockVars, reportVars, lockVars, msgVars,
      dispatchVars>>

NextFramer ==
    \/ UartData /\ UNCHANGED OthersOfFramer
    \/ UartFlush /\ UNCHANGED OthersOfFramer
    \/ UartOtherEvent /\ UNCHANGED OthersOfFramer

SpecFramer == InitFramer /\ [][NextFramer]_vars

(***************************************************************************)
(* Free-running stream: the MCU transmits arbitrary bytes, read as they    *)
(* arrive in chunks of up to MaxChunk bytes.                               *)
(***************************************************************************)
StreamBytes == {CMD_WIFI_CONFIG, HEADER1, HEADER0}
StreamChunks == UNION { [1..n -> StreamBytes] : n \in 1..MaxChunk }
FreeStream == [kind |-> "free", frame |-> <<>>, stream |-> <<>>, at |-> 0]

UartDataStream ==
    \E chunk \in StreamChunks :
        /\ rx_ring = <<>>
        /\ uart_event_DATA(chunk)
        /\ UNCHANGED <<rx_ring, scenario, flushed>>

InitStream ==
    /\ tx_out = <<>> /\ InitTime /\ InitNet /\ InitUnlock /\ InitReport /\ InitMsg /\ InitDispatch /\ InitCc /\ InitRace
    /\ state = 0
    /\ packet \in GarbagePackets
    /\ scenario = FreeStream
    /\ rx_ring = <<>>
    /\ dispatched = <<>>
    /\ flushed = FALSE

NextStream ==
    \/ UartDataStream /\ UNCHANGED OthersOfFramer
    \/ UartFlush /\ UNCHANGED OthersOfFramer
    \/ UartOtherEvent /\ UNCHANGED OthersOfFramer

SpecStream == InitStream /\ [][NextStream]_vars

(***************************************************************************)
(* get_time.c: parse_time_json stores the time and zone of a server reply. *)
(***************************************************************************)
UtcValues == {0, 16909060, 2147417596}
ZoneValues == {0, 80, -35}

parse_time_json(Utcs, Zones) ==
    \E t \in Utcs, z \in Zones :
        /\ s_utc_time' = t
        /\ s_time_zone' = z

(***************************************************************************)
(* net_sta.c                                                               *)
(***************************************************************************)
NetStatus == NET_STATUS_NOT_CONFIGURED..NET_STATUS_CONNECTED_SERVER

NetCall(op, arg, req) == [op |-> op, arg |-> arg, req |-> req]

\* NetStatusPacket with the time fields left at zero for every status
NetStatusPacketNoTime(status) ==
    BuildPacket(CMD_NETWORK_STATUS, <<status>> \o LE32(0) \o <<U8(0)>>)

\* the 0x23 packet built at lines 151-172 for the status just recorded
NetStatusPacket(status) ==
    LET utc_time == IF status = NET_STATUS_CONNECTED_SERVER THEN s_utc_time ELSE 0
        timezone == IF status = NET_STATUS_CONNECTED_SERVER THEN s_time_zone ELSE 0
    IN  BuildPacket(CMD_NETWORK_STATUS, <<status>> \o LE32(utc_time) \o <<U8(timezone)>>)

\* CancelTimer with > for >=: the timer survives the status it watches
CancelTimerAbove(timer, status, threshold) ==
    IF status > threshold /\ timer # "NULL" THEN "NULL" ELSE timer

\* xTimerStop, xTimerDelete and handle = NULL once the watched status is reached
CancelTimer(timer, status, threshold) ==
    IF status >= threshold /\ timer # "NULL" THEN "NULL" ELSE timer

\* UpdateStatus without the test status != current_status
UpdateStatusAlways(status, ok) ==
    /\ current_status' = status
    /\ timer_5s' = CancelTimer(timer_5s, status, NET_STATUS_CONNECTED_ROUTER)
    /\ timer_12s' = CancelTimer(timer_12s, status, NET_STATUS_CONNECTED_SERVER)
    /\ tx_out' = <<uart_comm_send_packet(NetStatusPacket(status), ok)>>

\* the body of net_sta_update_status(status); ok is the outcome of the send
UpdateStatus(status, ok) ==
    IF status # current_status
    THEN /\ current_status' = status
         /\ timer_5s' = CancelTimer(timer_5s, status, NET_STATUS_CONNECTED_ROUTER)
         /\ timer_12s' = CancelTimer(timer_12s, status, NET_STATUS_CONNECTED_SERVER)
         /\ tx_out' = <<uart_comm_send_packet(NetStatusPacket(status), ok)>>
    ELSE /\ tx_out' = <<>>
         /\ UNCHANGED <<current_status, timer_5s, timer_12s>>

\* net_sta_update_status called directly
net_sta_update_status ==
    \E status \in NetStatus, ok \in BOOLEAN :
        /\ UpdateStatus(status, ok)
        /\ net_call' = NetCall("update", "none", status)
        /\ UNCHANGED <<net_registered, timeVars>>

WifiEvents == {"STA_CONNECTED", "STA_GOT_IP", "STA_DISCONNECTED", "WIFI_OTHER"}
MqttEvents == {"MQTT_CONNECTED", "MQTT_DISCONNECTED", "MQTT_OTHER"}

\* the status net_sta_event_handler passes to net_sta_update_status, 0 if none
EventStatus(id) ==
    CASE id = "STA_CONNECTED" -> NET_STATUS_CONNECTING_ROUTER
      [] id = "STA_GOT_IP" -> NET_STATUS_CONNECTED_ROUTER
      [] id = "STA_DISCONNECTED" -> NET_STATUS_NOT_CONFIGURED
      [] id = "MQTT_CONNECTED" -> NET_STATUS_CONNECTED_SERVER
      [] id = "MQTT_DISCONNECTED" ->
            IF current_status >= NET_STATUS_CONNECTED_ROUTER
            THEN NET_STATUS_CONNECTED_ROUTER
            ELSE 0
      [] OTHER -> 0

net_sta_event_handler ==
    \E id \in WifiEvents \cup MqttEvents, ok \in BOOLEAN :
        /\ net_registered
        /\ IF EventStatus(id) # 0
           THEN UpdateStatus(EventStatus(id), ok)
           ELSE tx_out' = <<>> /\ UNCHANGED <<current_status, timer_5s, timer_12s>>
        /\ net_call' = NetCall("event", id, EventStatus(id))
        /\ UNCHANGED <<net_registered, timeVars>>

net_sta_init ==
    /\ ~net_registered
    /\ current_status' = NET_STATUS_NOT_CONFIGURED
    /\ net_registered' = TRUE
    /\ net_call' = NetCall("init", "none", 0)
    /\ tx_out' = <<>>
    /\ UNCHANGED <<timer_5s, timer_12s, timeVars>>

\* xTimerCreate then xTimerStart of a timer whose handle is NULL; either may fail
StartTimer(timer) ==
    IF timer = "NULL" THEN {"active", "dormant", "NULL"} ELSE {timer}

net_sta_start_monitor ==
    /\ timer_5s' \in StartTimer(timer_5s)
    /\ timer_12s' \in StartTimer(timer_12s)
    /\ net_call' = NetCall("monitor", "none", 0)
    /\ tx_out' = <<>>
    /\ UNCHANGED <<current_status, net_registered, timeVars>>

\* the one-shot timers expire: the callbacks only log
timer_5s_callback ==
    /\ timer_5s = "active"
    /\ timer_5s' = "dormant"
    /\ net_call' = NetCall("timer_5s", "none", 0)
    /\ tx_out' = <<>>
    /\ UNCHANGED <<current_status, timer_12s, net_registered, timeVars>>

timer_12s_callback ==
    /\ timer_12s = "active"
    /\ timer_12s' = "dormant"
    /\ net_call' = NetCall("timer_12s", "none", 0)
    /\ tx_out' = <<>>
    /\ UNCHANGED <<current_status, timer_5s, net_registered, timeVars>>

TimeUpdate ==
    /\ parse_time_json(UtcValues, ZoneValues)
    /\ net_call' = NetCall("time", "none", 0)
    /\ tx_out' = <<>>
    /\ UNCHANGED <<current_status, timer_5s, timer_12s, net_registered>>

\* the receive task has read nothing yet
InitRxIdle ==
    /\ state = 0
    /\ packet = [i \in 1..PACKET_SIZE |-> 0]
    /\ scenario = FreeStream
    /\ rx_ring = <<>>
    /\ dispatched = <<>>
    /\ flushed = FALSE

InitNetSta ==
    /\ tx_out = <<>> /\ InitTime /\ InitNet /\ InitUnlock /\ InitReport /\ InitMsg /\ InitDispatch /\ InitCc /\ InitRace /\ InitRxIdle

OthersOfNetSta == <<raceVars, ccVars, framerVars, unlockVars, reportVars, lockVars, msgVars,
      dispatchVars>>

NextNetSta ==
    \/ net_sta_init /\ UNCHANGED OthersOfNetSta
    \/ net_sta_start_monitor /\ UNCHANGED OthersOfNetSta
    \/ net_sta_event_handler /\ UNCHANGED OthersOfNetSta
    \/ net_sta_update_status /\ UNCHANGED OthersOfNetSta
    \/ timer_5s_callback /\ UNCHANGED OthersOfNetSta
    \/ timer_12s_callback /\ UNCHANGED OthersOfNetSta
    \/ TimeUpdate /\ UNCHANGED OthersOfNetSta

SpecNetSta == InitNetSta /\ [][NextNetSta]_vars

(***************************************************************************)
(* net_sta_update_status entered from the Wi-Fi event context and from the *)
(* MQTT event context.  The function takes no lock, so the test of line    *)
(* 125, the store of line 126, the timer block of lines 130-149 and the    *)
(* notification of lines 152-174 are steps of their own.  current_status   *)
(* is a plain static: after the store the build may use the value it just  *)
(* stored or read the variable again.                                      *)
(***************************************************************************)
TaskEvents(t) == IF t = "wifi" THEN WifiEvents ELSE MqttEvents

\* the value a read of current_status after line 126 may give task t
SeenStatus(t) == {upd_status[t], current_status}

UpdGoto(t, loc) == upd_pc' = [upd_pc EXCEPT ![t] = loc]

\* net_sta_event_handler maps the event and calls net_sta_update_status
upd_enter(t) ==
    \E id \in TaskEvents(t) :
        /\ net_registered
        /\ upd_pc[t] = "idle"
        /\ EventStatus(id) # 0
        /\ UpdGoto(t, "test")
        /\ upd_status' = [upd_status EXCEPT ![t] = EventStatus(id)]
        /\ net_call' = NetCall("event", id, EventStatus(id))
        /\ tx_out' = <<>>
        /\ UNCHANGED <<current_status, timer_5s, timer_12s, net_registered,
                       last_notified, timeVars>>

\* line 125
upd_test(t) ==
    /\ upd_pc[t] = "test"
    /\ UpdGoto(t, IF upd_status[t] # current_status THEN "store" ELSE "idle")
    /\ tx_out' = <<>>
    /\ UNCHANGED <<upd_status, last_notified, netVars, timeVars>>

\* line 126
upd_store(t) ==
    /\ upd_pc[t] = "store"
    /\ current_status' = upd_status[t]
    /\ UpdGoto(t, "cancel")
    /\ tx_out' = <<>>
    /\ UNCHANGED <<upd_status, last_notified, timer_5s, timer_12s, net_registered,
                   net_call, timeVars>>

\* lines 130-149
upd_cancel(t) ==
    \E seen \in SeenStatus(t) :
        /\ upd_pc[t] = "cancel"
        /\ timer_5s' = CancelTimer(timer_5s, seen, NET_STATUS_CONNECTED_ROUTER)
        /\ timer_12s' = CancelTimer(timer_12s, seen, NET_STATUS_CONNECTED_SERVER)
        /\ UpdGoto(t, "notify")
        /\ tx_out' = <<>>
        /\ UNCHANGED <<upd_status, last_notified, current_status, net_registered,
                       net_call, timeVars>>

\* lines 152-181
upd_notify(t) ==
    \E seen \in SeenStatus(t), ok \in BOOLEAN :
        /\ upd_pc[t] = "notify"
        /\ tx_out' = <<uart_comm_send_packet(NetStatusPacket(seen), ok)>>
        /\ last_notified' = IF ok THEN seen ELSE last_notified
        /\ UpdGoto(t, "idle")
        /\ UNCHANGED <<upd_status, netVars, timeVars>>

\* net_sta_init has run
InitNetRace ==
    /\ tx_out = <<>> /\ InitTime /\ InitUnlock /\ InitReport /\ InitMsg
    /\ InitDispatch /\ InitCc /\ InitRace /\ InitRxIdle
    /\ current_status = NET_STATUS_NOT_CONFIGURED
    /\ timer_5s = "NULL"
    /\ timer_12s = "NULL"
    /\ net_registered = TRUE
    /\ net_call = NetCall("init", "none", 0)

OthersOfNetRace == <<ccVars, framerVars, unlockVars, reportVars, lockVars, msgVars,
                     dispatchVars>>

NextNetRace ==
    \/ \E t \in UpdateTasks : upd_enter(t) /\ UNCHANGED OthersOfNetRace
    \/ \E t \in UpdateTasks : upd_test(t) /\ UNCHANGED OthersOfNetRace
    \/ \E t \in UpdateTasks : upd_store(t) /\ UNCHANGED OthersOfNetRace
    \/ \E t \in UpdateTasks : upd_cancel(t) /\ UNCHANGED OthersOfNetRace
    \/ \E t \in UpdateTasks : upd_notify(t) /\ UNCHANGED OthersOfNetRace
    \/ net_sta_start_monitor /\ UNCHANGED <<raceVars, OthersOfNetRace>>

SpecNetRace == InitNetRace /\ [][NextNetRace]_vars


(***************************************************************************)
(* unlock.c.  unlock_send_remote_unlock_to_mcu is called from any task and *)
(* takes no lock, so each of its accesses to the statics is a step of its  *)
(* own; unlock_handle_mcu_packet runs in the receive task and              *)
(* unlock_timeout_cb in the timer task.  xTimerStop and xTimerStart take   *)
(* effect when they are called.                                            *)
(***************************************************************************)
UnlockArgs == {<<5, 1>>, <<6, 515>>}
UnlockRxCmds == {CMD_REMOTE_UNLOCK_ACK, CMD_STATE_REPORT_ACK}

\* send_cmd_13_to_mcu: data[0] = user_type, data[1..2] = user_id little-endian
Cmd13Packet(user_type, user_id) ==
    BuildPacket(CMD_REMOTE_UNLOCK,
                <<user_type, user_id % 256, (user_id \div 256) % 256, 0, 0, 0>>)

UnlockStep(t, pc) == unlock_pc' = [unlock_pc EXCEPT ![t] = pc]
UnlockReturn(t, r) ==
    /\ unlock_pc' = [unlock_pc EXCEPT ![t] = "idle"]
    /\ unlock_ret' = [unlock_ret EXCEPT ![t] = r]

\* unlock_call without the test of s_unlock_in_progress
unlock_call_unchecked(t, a) ==
    /\ unlock_pc[t] = "idle"
    /\ mcu_unanswered < MaxUnanswered
    /\ UnlockStep(t, "set_type")
    /\ unlock_arg' = [unlock_arg EXCEPT ![t] = a]
    /\ unlock_ret' = [unlock_ret EXCEPT ![t] = "pending"]
    /\ tx_out' = <<>>
    /\ UNCHANGED <<s_unlock_in_progress, s_current_user_type, s_current_user_id,
                   s_unlock_timer, ack_pc, cb_pc, mcu_unanswered, outstanding>>

\* entry of unlock_send_remote_unlock_to_mcu(a[1], a[2]) in task t, lines 76-82
unlock_call(t, a) ==
    /\ unlock_pc[t] = "idle"
    /\ mcu_unanswered < MaxUnanswered
    /\ IF s_unlock_in_progress
       THEN /\ UnlockReturn(t, "ESP_ERR_INVALID_STATE")
            /\ UNCHANGED unlock_arg
       ELSE /\ UnlockStep(t, "set_type")
            /\ unlock_arg' = [unlock_arg EXCEPT ![t] = a]
            /\ unlock_ret' = [unlock_ret EXCEPT ![t] = "pending"]
    /\ tx_out' = <<>>
    /\ UNCHANGED <<s_unlock_in_progress, s_current_user_type, s_current_user_id,
                   s_unlock_timer, ack_pc, cb_pc, mcu_unanswered, outstanding>>

\* line 85
unlock_set_type(t) ==
    /\ unlock_pc[t] = "set_type"
    /\ s_current_user_type' = unlock_arg[t][1]
    /\ UnlockStep(t, "set_id")
    /\ tx_out' = <<>>
    /\ UNCHANGED <<s_unlock_in_progress, s_current_user_id, s_unlock_timer, unlock_arg,
                   unlock_ret, ack_pc, cb_pc, mcu_unanswered, outstanding>>

\* line 86
unlock_set_id(t) ==
    /\ unlock_pc[t] = "set_id"
    /\ s_current_user_id' = unlock_arg[t][2]
    /\ UnlockStep(t, "send")
    /\ tx_out' = <<>>
    /\ UNCHANGED <<s_unlock_in_progress, s_current_user_type, s_unlock_timer, unlock_arg,
                   unlock_ret, ack_pc, cb_pc, mcu_unanswered, outstanding>>

\* lines 89-93: send_cmd_13_to_mcu; a failed send returns its error
unlock_send(t) ==
    /\ unlock_pc[t] = "send"
    /\ \E ok \in BOOLEAN :
        /\ tx_out' = <<uart_comm_send_packet(
                            Cmd13Packet(unlock_arg[t][1], unlock_arg[t][2]), ok)>>
        /\ IF ok
           THEN /\ UnlockStep(t, "set_flag")
                /\ mcu_unanswered' = mcu_unanswered + 1
                /\ outstanding' = outstanding + 1
                /\ UNCHANGED unlock_ret
           ELSE /\ UnlockReturn(t, "ESP_FAIL")
                /\ UNCHANGED <<mcu_unanswered, outstanding>>
    /\ UNCHANGED <<s_unlock_in_progress, s_current_user_type, s_current_user_id,
                   s_unlock_timer, unlock_arg, ack_pc, cb_pc>>

\* line 96
unlock_set_flag(t) ==
    /\ unlock_pc[t] = "set_flag"
    /\ s_unlock_in_progress' = TRUE
    /\ UnlockStep(t, "timer_stop")
    /\ tx_out' = <<>>
    /\ UNCHANGED <<s_current_user_type, s_current_user_id, s_unlock_timer, unlock_arg,
                   unlock_ret, ack_pc, cb_pc, mcu_unanswered, outstanding>>

\* line 97
unlock_timer_stop(t) ==
    /\ unlock_pc[t] = "timer_stop"
    /\ s_unlock_timer' = 0
    /\ UnlockStep(t, "timer_start")
    /\ tx_out' = <<>>
    /\ UNCHANGED <<s_unlock_in_progress, s_current_user_type, s_current_user_id,
                   unlock_arg, unlock_ret, ack_pc, cb_pc, mcu_unanswered, outstanding>>

\* lines 98-103
unlock_timer_start(t) ==
    /\ unlock_pc[t] = "timer_start"
    /\ s_unlock_timer' = UnlockTimerTicks
    /\ UnlockReturn(t, "ESP_OK")
    /\ tx_out' = <<>>
    /\ UNCHANGED <<s_unlock_in_progress, s_current_user_type, s_current_user_id,
                   unlock_arg, ack_pc, cb_pc, mcu_unanswered, outstanding>>

\* unlock_handle_mcu_packet(packet), lines 109-118; the MCU sends 0x12 only in
\* answer to a 0x13
unlock_handle_mcu_packet ==
    \E cmd \in UnlockRxCmds :
        /\ ack_pc = "idle"
        /\ IF cmd = CMD_REMOTE_UNLOCK_ACK
           THEN /\ mcu_unanswered > 0
                /\ mcu_unanswered' = mcu_unanswered - 1
                /\ outstanding' = IF outstanding > 0 THEN outstanding - 1 ELSE 0
                /\ ack_pc' = IF s_unlock_in_progress THEN "stop" ELSE "idle"
           ELSE UNCHANGED <<mcu_unanswered, outstanding, ack_pc>>
        /\ tx_out' = <<>>
        /\ UNCHANGED <<s_unlock_in_progress, s_current_user_type, s_current_user_id,
                       s_unlock_timer, unlock_pc, unlock_arg, unlock_ret, cb_pc>>

\* unlock_ack_stop_timer without the xTimerStop
unlock_ack_keep_timer ==
    /\ ack_pc = "stop"
    /\ ack_pc' = "clear"
    /\ tx_out' = <<>>
    /\ UNCHANGED <<s_unlock_in_progress, s_current_user_type, s_current_user_id,
                   s_unlock_timer, unlock_pc, unlock_arg, unlock_ret, cb_pc,
                   mcu_unanswered, outstanding>>

\* line 120
unlock_ack_stop_timer ==
    /\ ack_pc = "stop"
    /\ s_unlock_timer' = 0
    /\ ack_pc' = "clear"
    /\ tx_out' = <<>>
    /\ UNCHANGED <<s_unlock_in_progress, s_current_user_type, s_current_user_id,
                   unlock_pc, unlock_arg, unlock_ret, cb_pc, mcu_unanswered, outstanding>>

\* line 121
unlock_ack_clear ==
    /\ ack_pc = "clear"
    /\ s_unlock_in_progress' = FALSE
    /\ ack_pc' = "idle"
    /\ tx_out' = <<>>
    /\ UNCHANGED <<s_current_user_type, s_current_user_id, s_unlock_timer,
                   unlock_pc, unlock_arg, unlock_ret, cb_pc, mcu_unanswered, outstanding>>

\* time passes while unlockTimer runs
unlock_timer_tick ==
    /\ s_unlock_timer > 1
    /\ s_unlock_timer' = s_unlock_timer - 1
    /\ tx_out' = <<>>
    /\ UNCHANGED <<s_unlock_in_progress, s_current_user_type, s_current_user_id,
                   unlock_pc, unlock_arg, unlock_ret, ack_pc, cb_pc, mcu_unanswered,
                   outstanding>>

\* the one-shot timer expires and the timer task enters unlock_timeout_cb
unlock_timer_expire ==
    /\ s_unlock_timer = 1
    /\ cb_pc = "idle"
    /\ s_unlock_timer' = 0
    /\ cb_pc' = "test"
    /\ outstanding' = 0
    /\ tx_out' = <<>>
    /\ UNCHANGED <<s_unlock_in_progress, s_current_user_type, s_current_user_id,
                   unlock_pc, unlock_arg, unlock_ret, ack_pc, mcu_unanswered>>

\* line 189
unlock_timeout_test ==
    /\ cb_pc = "test"
    /\ cb_pc' = IF s_unlock_in_progress THEN "clear" ELSE "idle"
    /\ tx_out' = <<>>
    /\ UNCHANGED <<s_unlock_in_progress, s_current_user_type, s_current_user_id,
                   s_unlock_timer, unlock_pc, unlock_arg, unlock_ret, ack_pc,
                   mcu_unanswered, outstanding>>

\* unlock_timeout_clear without the assignment of line 190
unlock_timeout_keep ==
    /\ cb_pc = "clear"
    /\ cb_pc' = "idle"
    /\ tx_out' = <<>>
    /\ UNCHANGED <<s_unlock_in_progress, s_current_user_type, s_current_user_id,
                   s_unlock_timer, unlock_pc, unlock_arg, unlock_ret, ack_pc,
                   mcu_unanswered, outstanding>>

\* line 190
unlock_timeout_clear ==
    /\ cb_pc = "clear"
    /\ s_unlock_in_progress' = FALSE
    /\ cb_pc' = "idle"
    /\ tx_out' = <<>>
    /\ UNCHANGED <<s_current_user_type, s_current_user_id, s_unlock_timer,
                   unlock_pc, unlock_arg, unlock_ret, ack_pc, mcu_unanswered, outstanding>>

InitUnlockRun ==
    /\ tx_out = <<>> /\ InitTime /\ InitNet /\ InitUnlock /\ InitReport /\ InitMsg /\ InitDispatch /\ InitCc /\ InitRace /\ InitRxIdle

OthersOfUnlock == <<raceVars, ccVars, framerVars, timeVars, netVars, reportVars, lockVars, msgVars,
      dispatchVars>>

NextUnlock ==
    \/ \E t \in UnlockTasks, a \in UnlockArgs : unlock_call(t, a) /\ UNCHANGED OthersOfUnlock
    \/ \E t \in UnlockTasks : unlock_set_type(t) /\ UNCHANGED OthersOfUnlock
    \/ \E t \in UnlockTasks : unlock_set_id(t) /\ UNCHANGED OthersOfUnlock
    \/ \E t \in UnlockTasks : unlock_send(t) /\ UNCHANGED OthersOfUnlock
    \/ \E t \in UnlockTasks : unlock_set_flag(t) /\ UNCHANGED OthersOfUnlock
    \/ \E t \in UnlockTasks : unlock_timer_stop(t) /\ UNCHANGED OthersOfUnlock
    \/ \E t \in UnlockTasks : unlock_timer_start(t) /\ UNCHANGED OthersOfUnlock
    \/ unlock_handle_mcu_packet /\ UNCHANGED OthersOfUnlock
    \/ unlock_ack_stop_timer /\ UNCHANGED OthersOfUnlock
    \/ unlock_ack_clear /\ UNCHANGED OthersOfUnlock
    \/ unlock_timer_tick /\ UNCHANGED OthersOfUnlock
    \/ unlock_timer_expire /\ UNCHANGED OthersOfUnlock
    \/ unlock_timeout_test /\ UNCHANGED OthersOfUnlock
    \/ unlock_timeout_clear /\ UNCHANGED OthersOfUnlock

SpecUnlock == InitUnlockRun /\ [][NextUnlock]_vars

\* the steps a calling task, the receive task, unlockTimer and the timer task
\* take once they are able to; calls and packets from the MCU may never come
CallerStep(t) ==
    (\/ unlock_set_type(t) \/ unlock_set_id(t) \/ unlock_send(t)
     \/ unlock_set_flag(t) \/ unlock_timer_stop(t) \/ unlock_timer_start(t))
    /\ UNCHANGED OthersOfUnlock
AckStepUnlock == (unlock_ack_stop_timer \/ unlock_ack_clear) /\ UNCHANGED OthersOfUnlock
TimerRuns == (unlock_timer_tick \/ unlock_timer_expire) /\ UNCHANGED OthersOfUnlock
TimeoutStep == (unlock_timeout_test \/ unlock_timeout_clear) /\ UNCHANGED OthersOfUnlock

FairUnlock ==
    /\ \A t \in UnlockTasks : WF_vars(CallerStep(t))
    /\ WF_vars(AckStepUnlock)
    /\ WF_vars(TimerRuns)
    /\ WF_vars(TimeoutStep)

SpecUnlockFair == InitUnlockRun /\ [][NextUnlock]_vars /\ FairUnlock

(***************************************************************************)
(* state_report.c.  One task calls state_report_upload; the call appends   *)
(* its item under the mutex and then sends outside it, so other tasks run  *)
(* between the two.  state_report_retx_task samples the time, then makes   *)
(* its pass over the list with the mutex held.  The clock moves in steps   *)
(* of the task's delay; a call of state_report_upload finishes within one  *)
(* step, and the task waits for the mutex no longer than one step.         *)
(***************************************************************************)
ReportArgs == {<<1, 7>>, <<513, 16909060>>}

\* lines 35-49
create_state_report_packet(state_type, state_value) ==
    BuildPacket(CMD_STATE_REPORT,
                <<state_type % 256, (state_type \div 256) % 256>> \o LE32(state_value))

\* lines 52-54
is_connected == s_utc_time # 0

cc_hal_sys_get_ms == clock

\* (now - last) >= STATE_REPORT_TIMEOUT_MS in uint32_t arithmetic, line 175:
\* when now < last the difference wraps to 2^32 - (last - now)
TimedOut(now, last) ==
    IF now >= last
    THEN now - last >= STATE_REPORT_TIMEOUT_MS
    ELSE (last - now) - 2147483647 <= (2147483647 - STATE_REPORT_TIMEOUT_MS) + 2

\* the new item linked at the head of the list
add_pending_item_at_head(list, id, state_type, state_value) ==
    <<[id |-> id, state_type |-> state_type, state_value |-> state_value,
       retry_count |-> 0, last_sent_time |-> cc_hal_sys_get_ms]>> \o list

\* lines 63-78, the list after the new item is linked at its tail
add_pending_item(list, id, state_type, state_value) ==
    Append(list, [id |-> id, state_type |-> state_type, state_value |-> state_value,
                  retry_count |-> 0, last_sent_time |-> cc_hal_sys_get_ms])

\* lines 83-92
remove_last_pending_item(list) ==
    IF list # <<>> THEN SubSeq(list, 1, Len(list) - 1) ELSE list

remove_first_pending_item(list) == IF list # <<>> THEN Tail(list) ELSE list

ItemIds(list) == { list[i].id : i \in 1..Len(list) }
InList(id) == id \in ItemIds(s_pending_list)

\* the retry test with <= in place of <
CanRetryOnceMore(item) == item.retry_count <= STATE_REPORT_MAX_RETRIES

\* line 176
CanRetry(item) == item.retry_count < STATE_REPORT_MAX_RETRIES

\* lines 174-196: the scan from item i to the end of the list; gives the
\* items from i on as the scan leaves them, the packets it sends and the
\* requests they belong to; oks[i] is the result of the send for item i
RECURSIVE RetxScan(_, _, _, _)
RetxScan(list, i, now, oks) ==
    IF i > Len(list) THEN [items |-> <<>>, tx |-> <<>>, ids |-> <<>>]
    ELSE LET cur == list[i]
             rest == RetxScan(list, i + 1, now, oks)
         IN IF TimedOut(now, cur.last_sent_time)
            THEN IF CanRetry(cur)
                 THEN LET p == uart_comm_send_packet(
                                   create_state_report_packet(cur.state_type,
                                                              cur.state_value), oks[i])
                          item == IF oks[i]
                                  THEN [cur EXCEPT !.last_sent_time = now,
                                                   !.retry_count = @ + 1]
                                  ELSE cur
                      IN [items |-> <<item>> \o rest.items,
                          tx |-> <<p>> \o rest.tx,
                          ids |-> <<cur.id>> \o rest.ids]
                 ELSE [items |-> SubSeq(list, i, Len(list)), tx |-> <<>>, ids |-> <<>>]
            ELSE [items |-> <<cur>> \o rest.items, tx |-> rest.tx, ids |-> rest.ids]

\* the clean-up of lines 198-204 left out
DropNothing(list) == list

\* lines 198-204
RECURSIVE DropExhausted(_)
DropExhausted(list) ==
    IF list # <<>> /\ Head(list).retry_count >= STATE_REPORT_MAX_RETRIES
    THEN DropExhausted(Tail(list))
    ELSE list

\* requests with a successful send among the packets tx sent for ids
SentOk(tx, ids) == { ids[i] : i \in { j \in 1..Len(tx) : tx[j].ok } }

\* state_report_upload up to the return of add_pending_item, lines 103-106
state_report_upload_add(Allocs) ==
    \E a \in ReportArgs, alloc_ok \in Allocs :
        /\ upload_pc = "idle"
        /\ uploads < MaxUploads
        /\ uploads' = uploads + 1
        /\ s_pending_list' = IF alloc_ok
                             THEN add_pending_item(s_pending_list, uploads + 1, a[1], a[2])
                             ELSE s_pending_list
        /\ fate' = [fate EXCEPT ![uploads + 1] = IF alloc_ok THEN "pending" ELSE "unallocated"]
        /\ upload_item' = [id |-> uploads + 1, state_type |-> a[1], state_value |-> a[2]]
        /\ upload_pc' = "send"
        /\ upload_ret' = "pending"
        /\ tx_out' = <<>>
        /\ UNCHANGED <<clock, retx_pc, retx_now, sent, wire, acked>>

\* the rest of state_report_upload, lines 108-124
state_report_upload_send(Oks) ==
    /\ upload_pc = "send"
    /\ IF is_connected
       THEN \E ok \in Oks :
            /\ tx_out' = <<uart_comm_send_packet(
                               create_state_report_packet(upload_item.state_type,
                                                          upload_item.state_value), ok)>>
            /\ sent' = IF ok THEN [sent EXCEPT ![upload_item.id] = @ + 1] ELSE sent
            /\ wire' = IF ok THEN wire \cup {upload_item.id} ELSE wire
            /\ upload_ret' = IF ok THEN "ESP_OK" ELSE "ESP_FAIL"
       ELSE /\ tx_out' = <<>>
            /\ upload_ret' = "ESP_OK"
            /\ UNCHANGED <<sent, wire>>
    /\ upload_pc' = "idle"
    /\ upload_item' = NoItem
    /\ UNCHANGED <<s_pending_list, clock, retx_pc, retx_now, uploads, fate, acked>>

\* the MCU answers the packet of one request with 0x43 and the dispatcher
\* calls state_report_ack_handler, lines 95-98
state_report_ack_handler ==
    \E id \in wire :
        /\ wire' = wire \ {id}
        /\ acked' = acked \cup {id}
        /\ s_pending_list' = remove_first_pending_item(s_pending_list)
        /\ fate' = IF s_pending_list # <<>>
                   THEN [fate EXCEPT ![Head(s_pending_list).id] = "removed"]
                   ELSE fate
        /\ tx_out' = <<>>
        /\ UNCHANGED <<clock, retx_pc, retx_now, upload_pc, upload_item, upload_ret,
                       uploads, sent>>

\* vTaskDelay has returned: is_connected and the sample of now, lines 166-170
state_report_retx_wake ==
    /\ retx_pc = "ready"
    /\ IF is_connected
       THEN retx_pc' = "sampled" /\ retx_now' = cc_hal_sys_get_ms
       ELSE retx_pc' = "delay" /\ UNCHANGED retx_now
    /\ tx_out' = <<>>
    /\ UNCHANGED <<s_pending_list, clock, upload_pc, upload_item, upload_ret, uploads,
                   sent, fate, wire, acked>>

\* one pass with the mutex held, lines 172-205, back to vTaskDelay
state_report_retx_pass(Oks) ==
    /\ retx_pc = "sampled"
    /\ \E oks \in [1..Len(s_pending_list) -> Oks] :
       \E r \in {RetxScan(s_pending_list, 1, retx_now, oks)} :
       \E kept \in {DropExhausted(r.items)} :
       \E ok_ids \in {SentOk(r.tx, r.ids)} :
           /\ s_pending_list' = kept
           /\ tx_out' = r.tx
           /\ sent' = [id \in Requests |-> IF id \in ok_ids THEN sent[id] + 1 ELSE sent[id]]
           /\ wire' = wire \cup ok_ids
           /\ fate' = [id \in Requests |->
                          IF id \in ItemIds(r.items) \ ItemIds(kept) THEN "dropped"
                          ELSE fate[id]]
    /\ retx_pc' = "delay"
    /\ retx_now' = 0
    /\ UNCHANGED <<clock, upload_pc, upload_item, upload_ret, uploads, acked>>

\* a timestamp one clock step later in the frame of reference
ShiftTime(t) ==
    IF t >= STATE_REPORT_RETX_TASK_DELAY_MS THEN t - STATE_REPORT_RETX_TASK_DELAY_MS ELSE 0

\* STATE_REPORT_RETX_TASK_DELAY_MS pass.  Once the clock has run ClockWindow
\* steps the timestamps move back instead of the clock moving on; one that
\* would pass below 0 is older than the timeout for every later reading
Tick ==
    /\ upload_pc = "idle"
    /\ retx_pc = "sampled" => retx_now = clock
    /\ IF clock < ClockWindow * STATE_REPORT_RETX_TASK_DELAY_MS
       THEN /\ clock' = clock + STATE_REPORT_RETX_TASK_DELAY_MS
            /\ UNCHANGED <<s_pending_list, retx_now>>
       ELSE /\ clock' = clock
            /\ s_pending_list' =
                   [i \in 1..Len(s_pending_list) |->
                       [s_pending_list[i] EXCEPT !.last_sent_time = ShiftTime(@)]]
            /\ retx_now' = IF retx_pc = "sampled" THEN ShiftTime(retx_now) ELSE retx_now
    /\ retx_pc' = IF retx_pc = "delay" THEN "ready" ELSE retx_pc
    /\ tx_out' = <<>>
    /\ UNCHANGED <<upload_pc, upload_item, upload_ret, uploads, sent, fate, wire, acked>>

\* get_time.c stores a new time while the state reports run
ReportTimeUpdate ==
    /\ parse_time_json({0, 16909060}, {0})
    /\ tx_out' = <<>>
    /\ UNCHANGED reportVars

OthersOfReport == <<raceVars, ccVars, framerVars, netVars, unlockVars, lockVars, msgVars,
      dispatchVars>>

\* connected from the start, every allocation and every send succeeds, and
\* the MCU answers nothing
InitRetry ==
    /\ tx_out = <<>> /\ s_utc_time = 16909060 /\ s_time_zone = 0
    /\ InitNet /\ InitUnlock /\ InitReport /\ InitMsg /\ InitDispatch /\ InitCc /\ InitRace /\ InitRxIdle

NextRetry ==
    \/ state_report_upload_add({TRUE}) /\ UNCHANGED <<OthersOfReport, timeVars>>
    \/ state_report_upload_send({TRUE}) /\ UNCHANGED <<OthersOfReport, timeVars>>
    \/ state_report_retx_wake /\ UNCHANGED <<OthersOfReport, timeVars>>
    \/ state_report_retx_pass({TRUE}) /\ UNCHANGED <<OthersOfReport, timeVars>>
    \/ Tick /\ UNCHANGED <<OthersOfReport, timeVars>>

\* time passes, and the calling task and the retransmit task get to run
SpecRetry ==
    /\ InitRetry /\ [][NextRetry]_vars
    /\ WF_vars(Tick /\ UNCHANGED <<OthersOfReport, timeVars>>)
    /\ WF_vars(state_report_upload_send({TRUE}) /\ UNCHANGED <<OthersOfReport, timeVars>>)
    /\ WF_vars(state_report_retx_wake /\ UNCHANGED <<OthersOfReport, timeVars>>)
    /\ WF_vars(state_report_retx_pass({TRUE}) /\ UNCHANGED <<OthersOfReport, timeVars>>)

InitReportRun ==
    /\ tx_out = <<>> /\ InitTime /\ InitNet /\ InitUnlock /\ InitReport /\ InitMsg /\ InitDispatch /\ InitCc /\ InitRace /\ InitRxIdle

NextReport ==
    \/ state_report_upload_add(BOOLEAN) /\ UNCHANGED <<OthersOfReport, timeVars>>
    \/ state_report_upload_send(BOOLEAN) /\ UNCHANGED <<OthersOfReport, timeVars>>
    \/ state_report_ack_handler /\ UNCHANGED <<OthersOfReport, timeVars>>
    \/ state_report_retx_wake /\ UNCHANGED <<OthersOfReport, timeVars>>
    \/ state_report_retx_pass(BOOLEAN) /\ UNCHANGED <<OthersOfReport, timeVars>>
    \/ Tick /\ UNCHANGED <<OthersOfReport, timeVars>>
    \/ ReportTimeUpdate /\ UNCHANGED OthersOfReport

SpecReport == InitReportRun /\ [][NextReport]_vars

\* the same with every send of the retransmit task succeeding
NextUpload ==
    \/ state_report_upload_add(BOOLEAN) /\ UNCHANGED <<OthersOfReport, timeVars>>
    \/ state_report_upload_send(BOOLEAN) /\ UNCHANGED <<OthersOfReport, timeVars>>
    \/ state_report_ack_handler /\ UNCHANGED <<OthersOfReport, timeVars>>
    \/ state_report_retx_wake /\ UNCHANGED <<OthersOfReport, timeVars>>
    \/ state_report_retx_pass({TRUE}) /\ UNCHANGED <<OthersOfReport, timeVars>>
    \/ Tick /\ UNCHANGED <<OthersOfReport, timeVars>>
    \/ ReportTimeUpdate /\ UNCHANGED OthersOfReport

SpecUpload == InitReportRun /\ [][NextUpload]_vars

\* connected from the start, every allocation and every send succeeds, and
\* the MCU answers some of the packets
NextDrain ==
    \/ NextRetry
    \/ state_report_ack_handler /\ UNCHANGED <<OthersOfReport, timeVars>>

SpecDrain ==
    /\ InitRetry /\ [][NextDrain]_vars
    /\ WF_vars(Tick /\ UNCHANGED <<OthersOfReport, timeVars>>)
    /\ WF_vars(state_report_upload_send({TRUE}) /\ UNCHANGED <<OthersOfReport, timeVars>>)
    /\ WF_vars(state_report_retx_wake /\ UNCHANGED <<OthersOfReport, timeVars>>)
    /\ WF_vars(state_report_retx_pass({TRUE}) /\ UNCHANGED <<OthersOfReport, timeVars>>)

(***************************************************************************)
(* The passes of the retransmit task over a backlog: the module is         *)
(* connected, the list holds up to MaxScanItems items that earlier calls   *)
(* of state_report_upload, passes and acks left in it, and no further call *)
(* or ack arrives.  Item i reports the value i.                            *)
(***************************************************************************)
ScanCounts == 0..STATE_REPORT_MAX_RETRIES
ScanTimes == {0, STATE_REPORT_TIMEOUT_MS}

ScanLists ==
    UNION { { [i \in 1..n |-> [id |-> i, state_type |-> 1, state_value |-> i,
                               retry_count |-> c[i], last_sent_time |-> t[i]]] :
                c \in [1..n -> ScanCounts], t \in [1..n -> ScanTimes] } :
            n \in 1..MaxScanItems }

InitScan ==
    /\ tx_out = <<>> /\ s_utc_time = 16909060 /\ s_time_zone = 0
    /\ InitNet /\ InitUnlock /\ InitMsg /\ InitDispatch /\ InitCc /\ InitRace /\ InitRxIdle
    /\ s_pending_list \in ScanLists
    /\ clock = STATE_REPORT_TIMEOUT_MS
    /\ retx_pc = "delay"
    /\ retx_now = 0
    /\ upload_pc = "idle"
    /\ upload_item = NoItem
    /\ upload_ret = "none"
    /\ uploads = MaxUploads
    /\ sent = [id \in Requests |-> 1]
    /\ fate = [id \in Requests |-> "pending"]
    /\ wire = {}
    /\ acked = {}
    /\ s_state_report_mutex = "free"
    /\ lock_pc = [t \in LockTasks |-> "idle"]
    /\ list_access = "none"

NextScan ==
    \/ state_report_retx_wake /\ UNCHANGED <<OthersOfReport, timeVars>>
    \/ state_report_retx_pass(BOOLEAN) /\ UNCHANGED <<OthersOfReport, timeVars>>
    \/ Tick /\ UNCHANGED <<OthersOfReport, timeVars>>

\* time passes and the retransmit task gets to run
FairScan ==
    /\ WF_vars(Tick /\ UNCHANGED <<OthersOfReport, timeVars>>)
    /\ WF_vars(state_report_retx_wake /\ UNCHANGED <<OthersOfReport, timeVars>>)
    /\ WF_vars(state_report_retx_pass(BOOLEAN) /\ UNCHANGED <<OthersOfReport, timeVars>>)

SpecScan == InitScan /\ [][NextScan]_vars /\ FairScan

(***************************************************************************)
(* state_report.c with the mutex: the same code with xSemaphoreTake, the   *)
(* accesses to the list and xSemaphoreGive as steps of their own.  The     *)
(* tasks are the one calling state_report_upload, the receive task in      *)
(* state_report_ack_handler and state_report_retx_task.                    *)
(***************************************************************************)
LockStep(t, pc) == lock_pc' = [lock_pc EXCEPT ![t] = pc]

\* xSemaphoreTake that returns at once without the mutex
xSemaphoreTakeNoWait(t) == s_state_report_mutex' = s_state_report_mutex

\* xSemaphoreTake(s_state_report_mutex, portMAX_DELAY): returns once the mutex
\* is free, with the caller as its holder
xSemaphoreTake(t) ==
    /\ s_state_report_mutex = "free"
    /\ s_state_report_mutex' = t

\* xSemaphoreGive(s_state_report_mutex): only the holder releases a mutex
xSemaphoreGive(t) ==
    s_state_report_mutex' = IF s_state_report_mutex = t THEN "free"
                            ELSE s_state_report_mutex

LockFrame == UNCHANGED <<raceVars, ccVars, upload_pc, upload_ret, sent, fate, acked, framerVars, netVars,
                         unlockVars, msgVars, dispatchVars, timeVars>>

\* state_report_upload enters add_pending_item: pvPortMalloc and the fields
\* of the new item, lines 103-67; without memory it goes on to the send
mutex_add_alloc ==
    \E a \in ReportArgs, alloc_ok \in BOOLEAN :
        /\ lock_pc["upload"] = "idle"
        /\ uploads < MaxUploads
        /\ uploads' = uploads + 1
        /\ upload_item' = [id |-> uploads + 1, state_type |-> a[1], state_value |-> a[2]]
        /\ LockStep("upload", IF alloc_ok THEN "take" ELSE "send")
        /\ list_access' = "none"
        /\ tx_out' = <<>>
        /\ UNCHANGED <<s_pending_list, clock, retx_pc, retx_now, wire,
                       s_state_report_mutex>>

\* lines 69, 84 and 172
mutex_take(t) ==
    /\ lock_pc[t] = "take"
    /\ xSemaphoreTake(t)
    /\ LockStep(t, "held")
    /\ list_access' = "none"
    /\ tx_out' = <<>>
    /\ UNCHANGED <<s_pending_list, clock, retx_pc, retx_now, upload_item, uploads, wire>>

\* lines 70-78
mutex_add_link ==
    /\ lock_pc["upload"] = "held"
    /\ s_pending_list' = add_pending_item(s_pending_list, upload_item.id,
                                          upload_item.state_type, upload_item.state_value)
    /\ list_access' = "upload"
    /\ LockStep("upload", "give")
    /\ tx_out' = <<>>
    /\ UNCHANGED <<clock, retx_pc, retx_now, upload_item, uploads, wire,
                   s_state_report_mutex>>

\* lines 79, 91 and 205; the retransmit task goes back to vTaskDelay
mutex_give(t) ==
    /\ lock_pc[t] = "give"
    /\ xSemaphoreGive(t)
    /\ LockStep(t, IF t = "upload" THEN "send" ELSE "idle")
    /\ IF t = "retx" THEN retx_pc' = "delay" /\ retx_now' = 0
       ELSE UNCHANGED <<retx_pc, retx_now>>
    /\ list_access' = "none"
    /\ tx_out' = <<>>
    /\ UNCHANGED <<s_pending_list, clock, upload_item, uploads, wire>>

\* lines 108-124
mutex_upload_send ==
    /\ lock_pc["upload"] = "send"
    /\ IF is_connected
       THEN \E ok \in BOOLEAN :
            /\ tx_out' = <<uart_comm_send_packet(
                               create_state_report_packet(upload_item.state_type,
                                                          upload_item.state_value), ok)>>
            /\ wire' = IF ok THEN wire \cup {upload_item.id} ELSE wire
       ELSE /\ tx_out' = <<>>
            /\ UNCHANGED wire
    /\ LockStep("upload", "idle")
    /\ upload_item' = NoItem
    /\ list_access' = "none"
    /\ UNCHANGED <<s_pending_list, clock, retx_pc, retx_now, uploads,
                   s_state_report_mutex>>

\* a 0x43 of the MCU brings the receive task into state_report_ack_handler
mutex_ack_enter ==
    \E id \in wire :
        /\ lock_pc["rx"] = "idle"
        /\ wire' = wire \ {id}
        /\ LockStep("rx", "take")
        /\ list_access' = "none"
        /\ tx_out' = <<>>
        /\ UNCHANGED <<s_pending_list, clock, retx_pc, retx_now, upload_item, uploads,
                       s_state_report_mutex>>

\* lines 85-90
mutex_remove ==
    /\ lock_pc["rx"] = "held"
    /\ s_pending_list' = remove_first_pending_item(s_pending_list)
    /\ list_access' = "rx"
    /\ LockStep("rx", "give")
    /\ tx_out' = <<>>
    /\ UNCHANGED <<clock, retx_pc, retx_now, upload_item, uploads, wire,
                   s_state_report_mutex>>

\* lines 164-170: vTaskDelay has returned
mutex_retx_wake ==
    /\ lock_pc["retx"] = "idle"
    /\ retx_pc = "ready"
    /\ IF is_connected
       THEN retx_pc' = "sampled" /\ retx_now' = cc_hal_sys_get_ms /\ LockStep("retx", "take")
       ELSE retx_pc' = "delay" /\ UNCHANGED <<retx_now, lock_pc>>
    /\ list_access' = "none"
    /\ tx_out' = <<>>
    /\ UNCHANGED <<s_pending_list, clock, upload_item, uploads, wire,
                   s_state_report_mutex>>

\* lines 173-196
mutex_retx_scan ==
    /\ lock_pc["retx"] = "held"
    /\ \E oks \in [1..Len(s_pending_list) -> BOOLEAN] :
       \E r \in {RetxScan(s_pending_list, 1, retx_now, oks)} :
           /\ s_pending_list' = r.items
           /\ tx_out' = r.tx
           /\ wire' = wire \cup SentOk(r.tx, r.ids)
    /\ list_access' = "retx"
    /\ LockStep("retx", "drop")
    /\ UNCHANGED <<clock, retx_pc, retx_now, upload_item, uploads, s_state_report_mutex>>

\* lines 198-204
mutex_retx_drop ==
    /\ lock_pc["retx"] = "drop"
    /\ s_pending_list' = DropExhausted(s_pending_list)
    /\ list_access' = "retx"
    /\ LockStep("retx", "give")
    /\ tx_out' = <<>>
    /\ UNCHANGED <<clock, retx_pc, retx_now, upload_item, uploads, wire,
                   s_state_report_mutex>>

\* time passes, but not while the calling task is inside add_pending_item
LockTick ==
    /\ lock_pc["upload"] \in {"idle", "send"}
    /\ Tick
    /\ UNCHANGED lockVars

InitLock ==
    /\ tx_out = <<>> /\ s_utc_time \in {0, 16909060} /\ s_time_zone = 0
    /\ InitNet /\ InitUnlock /\ InitReport /\ InitMsg /\ InitDispatch /\ InitCc /\ InitRace /\ InitRxIdle

NextLock ==
    \/ mutex_add_alloc /\ LockFrame
    \/ \E t \in LockTasks : mutex_take(t) /\ LockFrame
    \/ mutex_add_link /\ LockFrame
    \/ \E t \in LockTasks : mutex_give(t) /\ LockFrame
    \/ mutex_upload_send /\ LockFrame
    \/ mutex_ack_enter /\ LockFrame
    \/ mutex_remove /\ LockFrame
    \/ mutex_retx_wake /\ LockFrame
    \/ mutex_retx_scan /\ LockFrame
    \/ mutex_retx_drop /\ LockFrame
    \/ LockTick /\ LockFrame

\* a task that holds the mutex is not waiting for anything and runs on
FairLock ==
    /\ \A t \in LockTasks : WF_vars(mutex_give(t) /\ LockFrame)
    /\ WF_vars(mutex_add_link /\ LockFrame)
    /\ WF_vars(mutex_remove /\ LockFrame)
    /\ WF_vars((mutex_retx_scan \/ mutex_retx_drop) /\ LockFrame)

SpecLock == InitLock /\ [][NextLock]_vars /\ FairLock

(***************************************************************************)
(* The dispatcher of net_uart_comm.c.  uart_packet_received_internal runs  *)
(* to its end in the receive task; what the registered callback does with  *)
(* a packet is outside src/main/uart/net_uart_comm.c.                      *)
(***************************************************************************)
DispatchCmds == {CMD_WIFI_CONFIG, CMD_EXIT_CONFIG, CMD_NETWORK_STATUS,
                 CMD_GET_NETWORK_TIME, CMD_GET_DEVICE_INFO, CMD_CLEAR_DATA,
                 CMD_WIFI_RESPONSE, CMD_STATE_REPORT_ACK}
DispatchData == {ZeroPayload, <<4, 1, 2, 3, 4, 80>>}
DeviceId == <<65, 66, 67, 68, 69, 70, 71, 72, 73, 74, 75, 76>>
Mac == <<1, 2, 3, 4, 5, 6>>
ClearFailures == {"none", "disconnect", "erase", "init"}

\* the commands with a case of their own in the switch, lines 367-468
TableCmds == {CMD_WIFI_CONFIG, CMD_EXIT_CONFIG, CMD_NETWORK_STATUS,
              CMD_GET_NETWORK_TIME, CMD_GET_DEVICE_INFO, CMD_CLEAR_DATA}

\* lines 186-206
uart_comm_send_network_time(utc_time_sec, timezone_15min, ok) ==
    uart_comm_send_packet(BuildPacket(CMD_GET_NETWORK_TIME_RSP,
                                      LE32(utc_time_sec) \o <<U8(timezone_15min), 0>>), ok)

\* lines 211-263: the 28-byte uart_device_info_packet_t
uart_comm_send_device_info(device_id, mac, ok) ==
    LET body == <<HEADER0, HEADER1, CMD_GET_DEVICE_INFO_RSP>> \o device_id \o mac
                \o <<0, 0, 0, 0, 0, 0>>
    IN [pkt |-> body \o <<uart_comm_calc_checksum(body, Len(body))>>, ok |-> ok]

\* the response with data[0] = 0 whatever the outcome
ClearDataResponseAlwaysOk(success, ok) ==
    uart_comm_send_packet(BuildPacket(CMD_WIFI_RESPONSE, <<0, 0, 0, 0, 0, 0>>), ok)

\* lines 270-294
uart_comm_send_clear_data_response(success, ok) ==
    uart_comm_send_packet(BuildPacket(CMD_WIFI_RESPONSE,
                                      <<IF success THEN 0 ELSE 2, 0, 0, 0, 0, 0>>), ok)

\* if (s_packet_callback) s_packet_callback(packet) without the test
InvokeCallbackUnchecked(callback) == <<"s_packet_callback">>

\* if (s_packet_callback) s_packet_callback(packet), lines 370-372, 378-380, 472-474
InvokeCallback(callback) ==
    IF callback # "NULL" THEN <<"s_packet_callback">> ELSE <<>>

\* uart_comm_handle_clear_data, lines 300-358; fail_at names the step that fails
uart_comm_handle_clear_data(mutex, store, fail_at, ok) ==
    IF mutex # "free"
    THEN [ret |-> "ESP_FAIL", tx |-> <<>>, mutex |-> mutex, nvs |-> store, restart |-> FALSE]
    ELSE CASE fail_at = "disconnect" ->
                [ret |-> "ESP_FAIL", tx |-> <<>>, mutex |-> "free", nvs |-> store,
                 restart |-> FALSE]
           [] fail_at = "erase" ->
                [ret |-> "ESP_FAIL", tx |-> <<>>, mutex |-> "free", nvs |-> store,
                 restart |-> FALSE]
           [] fail_at = "init" ->
                [ret |-> "ESP_FAIL", tx |-> <<>>, mutex |-> "free", nvs |-> "erased",
                 restart |-> FALSE]
           [] OTHER ->
                [ret |-> "ESP_OK", tx |-> <<uart_comm_send_clear_data_response(TRUE, ok)>>,
                 mutex |-> "held", nvs |-> "ready", restart |-> TRUE]

\* the switch of uart_packet_received_internal, lines 367-476
Dispatch(p, callback, mutex, store, utc, tz, key_ok, mac_ok, fail_at, ok) ==
    LET plain(h, tx) == [handlers |-> h, tx |-> tx, mutex |-> mutex, nvs |-> store,
                         restart |-> FALSE]
        cmd == PktCommand(p)
    IN CASE cmd = CMD_WIFI_CONFIG -> plain(InvokeCallback(callback), <<>>)
         [] cmd = CMD_EXIT_CONFIG -> plain(InvokeCallback(callback), <<>>)
         [] cmd = CMD_NETWORK_STATUS -> plain(<<"CMD_NETWORK_STATUS">>, <<>>)
         [] cmd = CMD_GET_NETWORK_TIME ->
                plain(<<"CMD_GET_NETWORK_TIME">>, <<uart_comm_send_network_time(utc, tz, ok)>>)
         [] cmd = CMD_GET_DEVICE_INFO ->
                plain(<<"CMD_GET_DEVICE_INFO">>,
                      IF key_ok /\ mac_ok
                      THEN <<uart_comm_send_device_info(DeviceId, Mac, ok)>>
                      ELSE <<>>)
         [] cmd = CMD_CLEAR_DATA ->
                LET c == uart_comm_handle_clear_data(mutex, store, fail_at, ok)
                IN [handlers |-> <<"CMD_CLEAR_DATA">>,
                    tx |-> IF c.ret = "ESP_OK" THEN c.tx
                           ELSE <<uart_comm_send_clear_data_response(FALSE, ok)>>,
                    mutex |-> c.mutex, nvs |-> c.nvs, restart |-> c.restart]
         [] OTHER -> plain(InvokeCallback(callback), <<>>)

\* the framer hands a validated packet to uart_packet_received_internal
uart_packet_received_internal ==
    /\ running
    /\ \E cmd \in DispatchCmds, data \in DispatchData, key_ok \in BOOLEAN,
          mac_ok \in BOOLEAN, fail_at \in ClearFailures, ok \in BOOLEAN :
       \E p \in {BuildPacket(cmd, data)} :
       \E r \in {Dispatch(p, s_packet_callback, clear_data_mutex, nvs, s_utc_time,
                          s_time_zone, key_ok, mac_ok, fail_at, ok)} :
           /\ dispatched' = <<p>>
           /\ handlers' = r.handlers
           /\ tx_out' = r.tx
           /\ clear_data_mutex' = r.mutex
           /\ nvs' = r.nvs
           /\ running' = ~r.restart
    /\ UNCHANGED <<s_packet_callback, state, packet, rx_ring, scenario, flushed, timeVars>>

\* lines 652-656
uart_comm_register_callback ==
    /\ running
    /\ \E callback \in {"NULL", "callback"} : s_packet_callback' = callback
    /\ dispatched' = <<>> /\ handlers' = <<>> /\ tx_out' = <<>>
    /\ UNCHANGED <<clear_data_mutex, nvs, running, state, packet, rx_ring, scenario,
                   flushed, timeVars>>

\* get_time.c stores a new time while the dispatcher runs
DispatchTimeUpdate ==
    /\ running
    /\ parse_time_json(UtcValues, ZoneValues)
    /\ dispatched' = <<>> /\ handlers' = <<>> /\ tx_out' = <<>>
    /\ UNCHANGED <<s_packet_callback, clear_data_mutex, nvs, running, state, packet,
                   rx_ring, scenario, flushed>>

\* the device comes up after esp_restart: the statics are initialised again
Boot ==
    /\ ~running
    /\ running' = TRUE
    /\ s_packet_callback' = "NULL"
    /\ clear_data_mutex' = "free"
    /\ s_utc_time' = 0 /\ s_time_zone' = 0
    /\ dispatched' = <<>> /\ handlers' = <<>> /\ tx_out' = <<>>
    /\ UNCHANGED <<nvs, state, packet, rx_ring, scenario, flushed>>

InitDispatchRun ==
    /\ tx_out = <<>> /\ InitTime /\ InitNet /\ InitUnlock /\ InitReport /\ InitMsg /\ InitDispatch /\ InitCc /\ InitRace
    /\ InitRxIdle

OthersOfDispatch == <<raceVars, ccVars, netVars, unlockVars, reportVars, lockVars, msgVars>>

NextDispatch ==
    \/ uart_packet_received_internal /\ UNCHANGED OthersOfDispatch
    \/ uart_comm_register_callback /\ UNCHANGED OthersOfDispatch
    \/ DispatchTimeUpdate /\ UNCHANGED OthersOfDispatch
    \/ Boot /\ UNCHANGED OthersOfDispatch

SpecDispatch == InitDispatchRun /\ [][NextDispatch]_vars

(***************************************************************************)
(* msg_upload.c.  msg_upload_uart_callback runs in the receive task; the   *)
(* two one-shot timers expire in the timer task, whose callbacks are one   *)
(* assignment each.                                                        *)
(***************************************************************************)
CMD_MSG_UPLOAD == 3
CMD_POWER_OFF_NOTIFY == 4
CMD_MSG_UPLOAD_RSP == 2
EVENT_UNLOCK_REQUEST == 3
EVENT_UNLOCKED == 1

MsgCmds == {CMD_MSG_UPLOAD, CMD_POWER_OFF_NOTIFY, CMD_STATE_REPORT}
MsgData == { <<event, info, 0, 0, 0, 0>> : event \in {EVENT_UNLOCKED, 2, EVENT_UNLOCK_REQUEST},
                                          info \in {0, 1} }

\* the ack with data[0] = 0 whatever the outcome
CommonAckAlwaysOk(success, ok) ==
    uart_comm_send_packet(BuildPacket(CMD_MSG_UPLOAD_RSP, <<0, 3, 0, 0, 0, 0>>), ok)

\* msg_upload_send_common_ack(success), lines 247-265; ok is the outcome of
\* the send, which the function does not look at
msg_upload_send_common_ack(success, ok) ==
    uart_comm_send_packet(
        BuildPacket(CMD_MSG_UPLOAD_RSP, <<IF success THEN 0 ELSE 2, 3, 0, 0, 0, 0>>), ok)

\* handle_msg_upload(packet), lines 139-203
handle_msg_upload(p, ok) ==
    LET event == PktData(p)[1]
    IN IF event = EVENT_UNLOCK_REQUEST
       THEN IF s_remote_req_in_progress
            THEN /\ tx_out' = <<msg_upload_send_common_ack(FALSE, ok)>>
                 /\ mqtt_out' = <<>>
                 /\ UNCHANGED <<s_remote_req_in_progress, s_remote_req_timer,
                                s_unlocked_in_progress, s_unlocked_timer>>
            ELSE /\ s_remote_req_in_progress' = TRUE
                 /\ s_remote_req_timer' = "active"
                 /\ mqtt_out' = <<"remote_req">>
                 /\ tx_out' = <<msg_upload_send_common_ack(TRUE, ok)>>
                 /\ UNCHANGED <<s_unlocked_in_progress, s_unlocked_timer>>
       ELSE IF event = EVENT_UNLOCKED
       THEN IF s_unlocked_in_progress
            THEN /\ tx_out' = <<msg_upload_send_common_ack(FALSE, ok)>>
                 /\ mqtt_out' = <<>>
                 /\ UNCHANGED <<s_remote_req_in_progress, s_remote_req_timer,
                                s_unlocked_in_progress, s_unlocked_timer>>
            ELSE /\ s_unlocked_in_progress' = TRUE
                 /\ s_unlocked_timer' = "active"
                 /\ mqtt_out' = <<"unlocked">>
                 /\ tx_out' = <<msg_upload_send_common_ack(TRUE, ok)>>
                 /\ UNCHANGED <<s_remote_req_in_progress, s_remote_req_timer>>
       ELSE /\ tx_out' = <<msg_upload_send_common_ack(TRUE, ok)>>
            /\ mqtt_out' = <<>>
            /\ UNCHANGED <<s_remote_req_in_progress, s_remote_req_timer,
                           s_unlocked_in_progress, s_unlocked_timer>>

\* handle_power_off_notify, lines 206-220: the ack, then gs_mqtt_reset_config
handle_power_off_notify(ok) ==
    /\ tx_out' = <<msg_upload_send_common_ack(TRUE, ok)>>
    /\ mqtt_out' = <<>>
    /\ UNCHANGED <<s_remote_req_in_progress, s_remote_req_timer,
                   s_unlocked_in_progress, s_unlocked_timer>>

\* msg_upload_uart_callback(packet), lines 82-101
msg_upload_uart_callback ==
    \E cmd \in MsgCmds, data \in MsgData, ok \in BOOLEAN :
    \E p \in {BuildPacket(cmd, data)} :
        /\ dispatched' = <<p>>
        /\ CASE cmd = CMD_MSG_UPLOAD -> handle_msg_upload(p, ok)
             [] cmd = CMD_POWER_OFF_NOTIFY -> handle_power_off_notify(ok)
             [] OTHER -> /\ tx_out' = <<>>
                         /\ mqtt_out' = <<>>
                         /\ UNCHANGED <<s_remote_req_in_progress, s_remote_req_timer,
                                        s_unlocked_in_progress, s_unlocked_timer>>
        /\ UNCHANGED <<state, packet, rx_ring, scenario, flushed>>

\* remote_req_timer expires: remote_req_timer_cb, lines 224-233
remote_req_timer_cb ==
    /\ s_remote_req_timer = "active"
    /\ s_remote_req_timer' = "dormant"
    /\ s_remote_req_in_progress' = FALSE
    /\ dispatched' = <<>> /\ tx_out' = <<>> /\ mqtt_out' = <<>>
    /\ UNCHANGED <<s_unlocked_in_progress, s_unlocked_timer, state, packet, rx_ring,
                   scenario, flushed>>

\* unlocked_timer expires: unlocked_timer_cb, lines 236-243
unlocked_timer_cb ==
    /\ s_unlocked_timer = "active"
    /\ s_unlocked_timer' = "dormant"
    /\ s_unlocked_in_progress' = FALSE
    /\ dispatched' = <<>> /\ tx_out' = <<>> /\ mqtt_out' = <<>>
    /\ UNCHANGED <<s_remote_req_in_progress, s_remote_req_timer, state, packet, rx_ring,
                   scenario, flushed>>

InitMsgRun ==
    /\ tx_out = <<>> /\ InitTime /\ InitNet /\ InitUnlock /\ InitReport /\ InitMsg
    /\ InitDispatch /\ InitCc /\ InitRace /\ InitRxIdle

OthersOfMsg == <<raceVars, ccVars, timeVars, netVars, unlockVars, reportVars, lockVars, dispatchVars>>

NextMsg ==
    \/ msg_upload_uart_callback /\ UNCHANGED OthersOfMsg
    \/ remote_req_timer_cb /\ UNCHANGED OthersOfMsg
    \/ unlocked_timer_cb /\ UNCHANGED OthersOfMsg

SpecMsg == InitMsgRun /\ [][NextMsg]_vars

(***************************************************************************)
(* The packets the modules build, each as its builder fills it: the        *)
(* checksum is the last field every builder writes.                        *)
(***************************************************************************)
CMD_IMG_TRANSFER_RESULT == 39
CMD_IMG_TRANSFER_ACK == 29

EncodeBytes == {0, HEADER1, HEADER0, 255}
EncodeCmds == {0, CMD_STATE_REPORT, HEADER1, HEADER0, 255}
EncodePayloads == [1..6 -> EncodeBytes]
U16Values == {0, 258, 65535}

\* state_report_send_ack, state_report.c lines 127-137
state_report_send_ack(ok) ==
    uart_comm_send_packet(BuildPacket(CMD_STATE_REPORT_ACK, ZeroPayload), ok)

\* msg_upload_send_remote_unlock_cmd_to_lock, msg_upload.c lines 106-133
msg_upload_send_remote_unlock_cmd_to_lock(ok) ==
    uart_comm_send_packet(BuildPacket(CMD_REMOTE_UNLOCK_ACK, ZeroPayload), ok)

\* send_img_transfer_result, img_transfer.c lines 41-59
send_img_transfer_result(result_code, img_size, img_checksum, ok) ==
    uart_comm_send_packet(
        BuildPacket(CMD_IMG_TRANSFER_RESULT,
                    <<result_code, img_size % 256, (img_size \div 256) % 256,
                      img_checksum % 256, (img_checksum \div 256) % 256, 0>>), ok)

\* the 0x1D ack of img_transfer_handle_uart_packet, img_transfer.c lines 128-138
img_transfer_ack(mode, ok) ==
    uart_comm_send_packet(BuildPacket(CMD_IMG_TRANSFER_ACK, <<mode, 0, 0, 0, 0, 0>>), ok)

\* uart_comm_send_wifi_response, net_uart_comm.c lines 109-129
uart_comm_send_wifi_response(status, ok) ==
    uart_comm_send_packet(BuildPacket(CMD_WIFI_RESPONSE, <<status, 0, 0, 0, 0, 0>>), ok)

\* a builder runs once the previous packet has left the transmit buffer
TxIdle == tx_out = <<>>

\* the driver has written the packet out
uart_tx_done == tx_out # <<>> /\ tx_out' = <<>>

EncodeFrame == UNCHANGED <<raceVars, ccVars, framerVars, timeVars, netVars, unlockVars, reportVars, lockVars,
                           msgVars, dispatchVars>>

\* any command byte with any payload, filled in the way of every builder
encode_packet ==
    \E cmd \in EncodeCmds, data \in EncodePayloads, ok \in BOOLEAN :
        tx_out' = <<uart_comm_send_packet(BuildPacket(cmd, data), ok)>>

encode_net_sta ==
    \E status \in NetStatus, ok \in BOOLEAN :
        tx_out' = <<uart_comm_send_packet(NetStatusPacket(status), ok)>>

encode_state_report ==
    \E a \in ReportArgs, ok \in BOOLEAN :
        \/ tx_out' = <<uart_comm_send_packet(create_state_report_packet(a[1], a[2]), ok)>>
        \/ tx_out' = <<state_report_send_ack(ok)>>

encode_unlock ==
    \E a \in UnlockArgs, ok \in BOOLEAN :
        tx_out' = <<uart_comm_send_packet(Cmd13Packet(a[1], a[2]), ok)>>

encode_msg_upload ==
    \E success \in BOOLEAN, ok \in BOOLEAN :
        \/ tx_out' = <<msg_upload_send_common_ack(success, ok)>>
        \/ tx_out' = <<msg_upload_send_remote_unlock_cmd_to_lock(ok)>>

encode_img_transfer ==
    \E code \in 0..2, size \in U16Values, sum \in U16Values, ok \in BOOLEAN :
        \/ tx_out' = <<send_img_transfer_result(code, size, sum, ok)>>
        \/ tx_out' = <<img_transfer_ack(code, ok)>>

encode_uart_comm ==
    \E status \in 0..2, success \in BOOLEAN, ok \in BOOLEAN :
        \/ tx_out' = <<uart_comm_send_wifi_response(status, ok)>>
        \/ tx_out' = <<uart_comm_send_network_time(s_utc_time, s_time_zone, ok)>>
        \/ tx_out' = <<uart_comm_send_device_info(DeviceId, Mac, ok)>>
        \/ tx_out' = <<uart_comm_send_clear_data_response(success, ok)>>

InitEncode ==
    /\ tx_out = <<>> /\ s_utc_time \in UtcValues /\ s_time_zone \in ZoneValues
    /\ InitNet /\ InitUnlock /\ InitReport /\ InitMsg /\ InitDispatch /\ InitCc /\ InitRace /\ InitRxIdle

NextEncode ==
    \/ TxIdle /\ encode_packet /\ EncodeFrame
    \/ TxIdle /\ encode_net_sta /\ EncodeFrame
    \/ TxIdle /\ encode_state_report /\ EncodeFrame
    \/ TxIdle /\ encode_unlock /\ EncodeFrame
    \/ TxIdle /\ encode_msg_upload /\ EncodeFrame
    \/ TxIdle /\ encode_img_transfer /\ EncodeFrame
    \/ TxIdle /\ encode_uart_comm /\ EncodeFrame
    \/ uart_tx_done /\ EncodeFrame

SpecEncode == InitEncode /\ [][NextEncode]_vars

(***************************************************************************)
(* Checksum verification of a frame damaged on the line: the comparison    *)
(* of case 9 of the framer, applied to ten received bytes.                 *)
(***************************************************************************)
\* 2^k for a bit index of a byte
Bit(k) == CASE k = 0 -> 1 [] k = 1 -> 2 [] k = 2 -> 4 [] k = 3 -> 8
            [] k = 4 -> 16 [] k = 5 -> 32 [] k = 6 -> 64 [] k = 7 -> 128

\* byte b with bit k inverted
FlipByte(b, k) == IF (b \div Bit(k)) % 2 = 1 THEN b - Bit(k) ELSE b + Bit(k)

\* frame p with bit k of byte i inverted
FlipBit(p, i, k) == [p EXCEPT ![i] = FlipByte(p[i], k)]

FlipPayloads == { d \in EncodePayloads : d[4] = 0 /\ d[5] = 0 }
FlipFrames == { BuildPacket(c, d) : c \in EncodeCmds, d \in FlipPayloads }

IntactScenarios ==
    { [kind |-> "intact", frame |-> f, stream |-> f, at |-> 0] : f \in FlipFrames }

\* at is the position of the inverted bit in the stream, counted from 1
FlipScenarios ==
    { [kind |-> "flip", frame |-> f, stream |-> FlipBit(f, i, k), at |-> 8 * (i - 1) + k + 1] :
        f \in FlipFrames, i \in 1..PACKET_SIZE, k \in 0..7 }

\* case 9: the ten bytes are in packet, calc is compared with packet.checksum
verify_checksum ==
    /\ Len(rx_ring) = PACKET_SIZE
    /\ packet' = rx_ring
    /\ dispatched' = IF ChecksumOk(rx_ring) THEN <<rx_ring>> ELSE <<>>
    /\ rx_ring' = <<>>
    /\ state' = 0
    /\ UNCHANGED <<scenario, flushed>>

InitFlip ==
    /\ tx_out = <<>> /\ InitTime /\ InitNet /\ InitUnlock /\ InitReport /\ InitMsg /\ InitDispatch /\ InitCc /\ InitRace
    /\ state = 0
    /\ packet = [i \in 1..PACKET_SIZE |-> 0]
    /\ scenario \in IntactScenarios \cup FlipScenarios
    /\ rx_ring = scenario.stream
    /\ dispatched = <<>>
    /\ flushed = FALSE

NextFlip == verify_checksum /\ UNCHANGED OthersOfFramer

SpecFlip == InitFlip /\ [][NextFlip]_vars

(***************************************************************************)
(* Back-to-back frames after a desynchronisation: the task starts reading  *)
(* in the middle of a frame, and the MCU keeps transmitting the frame.     *)
(***************************************************************************)
\* at is the number of bytes of the first frame the task has missed
RepeatScenarios ==
    { [kind |-> "repeat", frame |-> BuildPacket(CMD_WIFI_CONFIG, d),
       stream |-> SubSeq(BuildPacket(CMD_WIFI_CONFIG, d), k + 1, PACKET_SIZE), at |-> k] :
        d \in Payloads, k \in 0..(PACKET_SIZE - 1) }

\* the MCU transmits the next frame right behind the previous one
mcu_send_frame ==
    /\ rx_ring = <<>>
    /\ rx_ring' = scenario.frame
    /\ UNCHANGED <<state, packet, dispatched, scenario, flushed>>

InitResync ==
    /\ tx_out = <<>> /\ InitTime /\ InitNet /\ InitUnlock /\ InitReport /\ InitMsg /\ InitDispatch /\ InitCc /\ InitRace
    /\ state = 0
    /\ packet \in GarbagePackets
    /\ scenario \in RepeatScenarios
    /\ rx_ring = scenario.stream
    /\ dispatched = <<>>
    /\ flushed = FALSE

NextResync ==
    \/ UartData /\ UNCHANGED OthersOfFramer
    \/ mcu_send_frame /\ UNCHANGED OthersOfFramer

\* the task reads what the driver received, and the MCU keeps transmitting
FairResync ==
    /\ WF_vars(UartData /\ UNCHANGED OthersOfFramer)
    /\ WF_vars(mcu_send_frame /\ UNCHANGED OthersOfFramer)

SpecResync == InitResync /\ [][NextResync]_vars /\ FairResync

\* the same stream with overflow events between the reads
NextFlush ==
    \/ UartData /\ UNCHANGED OthersOfFramer
    \/ UartFlush /\ UNCHANGED OthersOfFramer
    \/ mcu_send_frame /\ UNCHANGED OthersOfFramer

\* the task reads from the first byte of a frame
InitFlush == InitResync /\ scenario.at = 0 /\ scenario.frame[5] = 0 /\ scenario.frame[6] = 0

SpecFlush == InitFlush /\ [][NextFlush]_vars

(***************************************************************************)
(* get_time.c, the zone of parse_time_json: the text after "UTC" is read   *)
(* as a float; an offset is given here in quarter-hours, UTC-12:00 to      *)
(* UTC+14:00, each of which a float holds exactly.                         *)
(***************************************************************************)
ZoneOffsets == (0 - 48)..56

\* (int) of n / d, which truncates toward zero
TruncDiv(n, d) == IF n >= 0 THEN n \div d ELSE 0 - ((0 - n) \div d)

\* (int8_t) of an int
Int8(v) == ((v + 128) % 256) - 128

\* lines 239-243 for zone_float = n / 4
zone_code(n) ==
    LET hour_part == TruncDiv(n, 4)
        \* fraction * 4.0f, then rounded to the nearest
        quarter == n - 4 * hour_part
        hour_base == hour_part * 10
    IN  Int8(hour_base + quarter * 3)

\* parse_time_json on a reply whose zone is n quarter-hours
TimeZoneUpdate ==
    \E n \in ZoneOffsets :
        /\ s_time_zone' = zone_code(n)
        /\ net_call' = NetCall("zone", "none", n)
        /\ tx_out' = <<>>
        /\ UNCHANGED <<s_utc_time, current_status, timer_5s, timer_12s, net_registered>>

NextZone == TimeZoneUpdate /\ UNCHANGED OthersOfNetSta

SpecZone == InitNetSta /\ [][NextZone]_vars

(***************************************************************************)
(* cc_event_reset.c: one task calls cc_event_reset, which calls itself at  *)
(* line 75 with the state mutex held, and another task calls               *)
(* cc_event_set_state.  cc_stack holds the position of each active call of *)
(* cc_event_reset, the innermost last.  The mutex is a plain FreeRTOS      *)
(* mutex: a take by the task that holds it waits out its timeout and       *)
(* fails.  cc_event_set_state holds the mutex for one assignment, which    *)
(* the 1000 ms wait of cc_event_reset outlasts.                            *)
(***************************************************************************)
CcStates == {"CC_STATE_INIT", "CC_STATE_WIFI_CONFIG", "CC_STATE_CONNECTING",
             "CC_STATE_CONNECTED", "CC_STATE_CLOUD_CONNECTED", "CC_STATE_ERROR"}

CcTop == cc_stack[Len(cc_stack)]
CcAt(pc) == cc_stack # <<>> /\ CcTop = pc
CcGoto(pc) == cc_stack' = [cc_stack EXCEPT ![Len(cc_stack)] = pc]
\* the innermost call returns ret to its caller
CcReturn(ret) ==
    /\ cc_stack' = SubSeq(cc_stack, 1, Len(cc_stack) - 1)
    /\ cc_ret' = ret

\* a task calls cc_event_reset, line 52
cc_event_reset_call ==
    /\ cc_stack = <<>>
    /\ cc_stack' = <<"init">>
    /\ cc_ret' = "none"
    /\ UNCHANGED <<cc_current_state, cc_state_mutex, cc_is_initialized, cc_set_pc, cc_set_arg>>

\* cc_event_init_if_needed and the test of its result, lines 57-61 and 32-45
cc_event_init_if_needed ==
    /\ CcAt("init")
    /\ IF cc_is_initialized
       THEN CcGoto("take") /\ UNCHANGED <<cc_current_state, cc_state_mutex,
                                           cc_is_initialized, cc_ret>>
       ELSE \E created \in BOOLEAN :
            IF created
            THEN /\ cc_state_mutex' = "free"
                 /\ cc_is_initialized' = TRUE
                 /\ cc_current_state' = "CC_STATE_INIT"
                 /\ CcGoto("take")
                 /\ UNCHANGED cc_ret
            ELSE /\ CcReturn("ESP_ERR_NO_MEM")
                 /\ UNCHANGED <<cc_current_state, cc_state_mutex, cc_is_initialized>>
    /\ UNCHANGED <<cc_set_pc, cc_set_arg>>

\* a take that succeeds also when the calling task holds the mutex
cc_take_recursive ==
    /\ CcAt("take")
    /\ cc_state_mutex \in {"free", "reset"}
    /\ cc_state_mutex' = "reset"
    /\ CcGoto("reset")
    /\ UNCHANGED <<cc_current_state, cc_is_initialized, cc_ret, cc_set_pc, cc_set_arg>>

\* xSemaphoreTake(state_mutex, 1000 ms), lines 64-67
cc_take ==
    /\ CcAt("take")
    /\ cc_state_mutex \in {"free", "reset"}
    /\ IF cc_state_mutex = "free"
       THEN /\ cc_state_mutex' = "reset"
            /\ CcGoto("reset")
            /\ UNCHANGED <<cc_current_state, cc_is_initialized, cc_ret>>
       ELSE /\ CcReturn("ESP_ERR_TIMEOUT")
            /\ UNCHANGED <<cc_current_state, cc_state_mutex, cc_is_initialized>>
    /\ UNCHANGED <<cc_set_pc, cc_set_arg>>

\* cc_hal_wifi_sta_disconnect and the call of cc_event_reset, lines 71-75
cc_nested_call ==
    /\ CcAt("reset")
    /\ Len(cc_stack) < MaxCcDepth
    /\ cc_stack' = [cc_stack EXCEPT ![Len(cc_stack)] = "finish"] \o <<"init">>
    /\ UNCHANGED <<cc_current_state, cc_state_mutex, cc_is_initialized, cc_ret,
                   cc_set_pc, cc_set_arg>>

\* lines 79-92: the result of the nested call is not looked at
cc_finish ==
    /\ CcAt("finish")
    /\ cc_current_state' = "CC_STATE_INIT"
    /\ cc_is_initialized' = TRUE
    /\ cc_state_mutex' = "free"
    /\ CcReturn("ESP_OK")
    /\ UNCHANGED <<cc_set_pc, cc_set_arg>>

\* cc_event_set_state(new_state) up to its wait for the mutex, lines 113-117
cc_event_set_state_call ==
    \E new_state \in CcStates :
        /\ cc_set_pc = "idle"
        /\ cc_set_arg' = new_state
        /\ cc_set_pc' = IF cc_state_mutex = "NULL" THEN "idle" ELSE "take"
        /\ UNCHANGED <<cc_current_state, cc_state_mutex, cc_is_initialized, cc_stack, cc_ret>>

\* xSemaphoreTake(state_mutex, 100 ms), lines 119-121
cc_event_set_state_take ==
    /\ cc_set_pc = "take"
    /\ IF cc_state_mutex = "free"
       THEN cc_state_mutex' = "set" /\ cc_set_pc' = "write"
       ELSE cc_set_pc' = "idle" /\ UNCHANGED cc_state_mutex
    /\ UNCHANGED <<cc_current_state, cc_is_initialized, cc_stack, cc_ret, cc_set_arg>>

\* the assignment and xSemaphoreGive, lines 123-127
cc_event_set_state_write ==
    /\ cc_set_pc = "write"
    /\ cc_current_state' = cc_set_arg
    /\ cc_state_mutex' = "free"
    /\ cc_set_pc' = "idle"
    /\ UNCHANGED <<cc_is_initialized, cc_stack, cc_ret, cc_set_arg>>

OthersOfCc == <<raceVars, framerVars, tx_out, timeVars, netVars, unlockVars, reportVars, lockVars,
                msgVars, dispatchVars>>

InitCcRun ==
    /\ tx_out = <<>> /\ InitTime /\ InitNet /\ InitUnlock /\ InitReport /\ InitMsg
    /\ InitDispatch /\ InitCc /\ InitRace /\ InitRxIdle

CcStep == cc_event_init_if_needed \/ cc_take \/ cc_nested_call \/ cc_finish

NextCc ==
    \/ cc_event_reset_call /\ UNCHANGED OthersOfCc
    \/ cc_event_init_if_needed /\ UNCHANGED OthersOfCc
    \/ cc_take /\ UNCHANGED OthersOfCc
    \/ cc_nested_call /\ UNCHANGED OthersOfCc
    \/ cc_finish /\ UNCHANGED OthersOfCc
    \/ cc_event_set_state_call /\ UNCHANGED OthersOfCc
    \/ cc_event_set_state_take /\ UNCHANGED OthersOfCc
    \/ cc_event_set_state_write /\ UNCHANGED OthersOfCc

\* both tasks get to run, and a give of the mutex wakes the task that waits
\* for it
SpecCc ==
    /\ InitCcRun /\ [][NextCc]_vars
    /\ SF_vars(CcStep /\ UNCHANGED OthersOfCc)
    /\ WF_vars(cc_event_set_state_write /\ UNCHANGED OthersOfCc)

(***************************************************************************)
(* Claims about the framer.                                                *)
(***************************************************************************)
\* bytes of the scenario stream the framer has consumed in a state
Consumed(ring) == Len(scenario.stream) - Len(ring)

ValidPacket(p) ==
    /\ p[1] = HEADER0
    /\ p[2] = HEADER1
    /\ p[10] = uart_comm_calc_checksum(p, PACKET_SIZE - 1)

\* C1: a well-formed 10-byte frame fed to the framer in WAIT_HEADER1 is
\* dispatched exactly once, with its command and payload, however the bytes
\* are split into chunks: the event that reads the tenth byte dispatches the
\* frame, every other event dispatches nothing.
C1_FrameDispatchedOnce ==
    [][(scenario.kind = "frame" /\ ~flushed')
        => dispatched' = IF rx_ring' # rx_ring /\ Consumed(rx_ring') = PACKET_SIZE
                         THEN <<BuildPacket(PktCommand(scenario.frame),
                                            PktData(scenario.frame))>>
                         ELSE <<>>]_vars

C1_Witness ==
    /\ scenario.kind = "frame"
    /\ ~flushed
    /\ rx_ring = <<>>
    /\ state = 0
    /\ dispatched = <<scenario.stream>>
    /\ PktData(scenario.stream)[2] = HEADER0

\* C2: every dispatched packet has the header AA 55 and a checksum byte equal
\* to the low byte of the sum of its first nine bytes, on every byte stream.
C2_DispatchedValid ==
    \A i \in 1..Len(dispatched) : ValidPacket(dispatched[i])

C2_Witness ==
    /\ scenario.kind = "free"
    /\ dispatched # <<>>
    /\ PktData(dispatched[1])[1] = HEADER0

\* the inserted 0xAA is not followed by 0x55
NoStrayHeader2(sc) == sc.stream[sc.at + 1] # HEADER1

\* the events of a resync run dispatch the well-formed frame when its last
\* byte is read and nothing else
ResyncDispatch ==
    dispatched' = IF rx_ring' # rx_ring /\ rx_ring' = <<>>
                  THEN <<scenario.frame>>
                  ELSE <<>>

\* C3 as claimed: a frame corrupted by one spurious 0xAA in its payload and
\* directly followed by a well-formed frame yields exactly one dispatched
\* packet, the well-formed frame, whenever the inserted 0xAA is not followed
\* by 0x55.
C3_Claimed ==
    [][(scenario.kind = "resync" /\ ~flushed' /\ NoStrayHeader2(scenario))
        => ResyncDispatch]_vars

\* the ten bytes the framer takes as the corrupted frame fail the checksum,
\* and the byte left over after them (the original checksum) is not 0xAA
CleanResync(sc) ==
    /\ ~ChecksumOk(SubSeq(sc.stream, 1, PACKET_SIZE))
    /\ sc.stream[PACKET_SIZE + 1] # HEADER0

\* C3 as amended: the same, for inputs where in addition the ten bytes taken
\* as the corrupted frame fail the checksum and the left-over eleventh byte
\* is not 0xAA.
C3_ResyncAmended ==
    [][(scenario.kind = "resync" /\ ~flushed' /\ NoStrayHeader2(scenario)
            /\ CleanResync(scenario))
        => ResyncDispatch]_vars

C3_Witness ==
    /\ scenario.kind = "resync"
    /\ NoStrayHeader2(scenario)
    /\ CleanResync(scenario)
    /\ ~flushed
    /\ rx_ring = <<>>
    /\ dispatched = <<scenario.frame>>

(***************************************************************************)
(* Claims about the network status tracker.                                *)
(***************************************************************************)
Notifications(out) ==
    { i \in 1..Len(out) : PktCommand(out[i].pkt) = CMD_NETWORK_STATUS }

\* C4: a step that calls net_sta_update_status (directly or from an event)
\* passes exactly one 0x23 packet to the transport if the requested status
\* differs from the recorded one and none if it is equal; no other step
\* sends a notification.
C4_NotifyIffChanged ==
    [][Cardinality(Notifications(tx_out')) =
            IF net_call'.req # 0 /\ net_call'.req # current_status THEN 1 ELSE 0]_vars

C4_Witness ==
    /\ net_call.op = "event"
    /\ net_call.arg = "MQTT_DISCONNECTED"
    /\ current_status = NET_STATUS_CONNECTED_ROUTER
    /\ Len(tx_out) = 1
    /\ PktData(tx_out[1].pkt)[1] = NET_STATUS_CONNECTED_ROUTER

\* C5 as claimed: an event lowers the status only along the two demotion
\* edges, Wi-Fi disconnect (to NOT_CONFIGURED) and MQTT disconnect (to
\* CONNECTED_ROUTER, from CONNECTED_ROUTER or above).
C5_Claimed ==
    [][(net_call'.op = "event" /\ current_status' < current_status)
        => \/ /\ net_call'.arg = "STA_DISCONNECTED"
              /\ current_status' = NET_STATUS_NOT_CONFIGURED
           \/ /\ net_call'.arg = "MQTT_DISCONNECTED"
              /\ current_status >= NET_STATUS_CONNECTED_ROUTER
              /\ current_status' = NET_STATUS_CONNECTED_ROUTER]_vars

(***************************************************************************)
(* Claims about the remote-unlock correlator.                              *)
(***************************************************************************)
\* C8: a call of unlock_send_remote_unlock_to_mcu made while a request is
\* AWAITING_ACK returns ESP_ERR_INVALID_STATE, sends no packet and leaves the
\* timeout timer and the recorded user_type and user_id as they are.
C8_SecondCallRejected ==
    [][\A t \in UnlockTasks, a \in UnlockArgs :
        (s_unlock_in_progress /\ unlock_call(t, a))
        => /\ unlock_pc'[t] = "idle"
           /\ unlock_ret'[t] = "ESP_ERR_INVALID_STATE"
           /\ tx_out' = <<>>
           /\ s_unlock_timer' = s_unlock_timer
           /\ s_current_user_type' = s_current_user_type
           /\ s_current_user_id' = s_current_user_id
           /\ s_unlock_in_progress']_vars

C8_Witness ==
    /\ s_unlock_in_progress
    /\ unlock_ret["task1"] = "ESP_OK"
    /\ unlock_ret["task2"] = "ESP_ERR_INVALID_STATE"
    /\ unlock_pc["task1"] = "idle"
    /\ s_unlock_timer = 1
    /\ s_current_user_type = unlock_arg["task1"][1]
    /\ s_current_user_id = unlock_arg["task1"][2]
    /\ outstanding = 1

\* C9 as claimed: at most one 0x13 command is outstanding (sent and neither
\* acknowledged nor timed out) at any time.
C9_Claimed == outstanding <= 1

C7_Claimed ==
    [][\A id \in acked' :
        /\ ~(id \in ItemIds(s_pending_list'))
        /\ id \in acked => sent'[id] = sent[id]]_vars

(***************************************************************************)
(* Claims about the dispatcher.                                            *)
(***************************************************************************)
DispatchedCmd == PktCommand(dispatched'[1])

\* C11 as claimed: a dispatch invokes exactly the built-in handler when the
\* command is in the table, otherwise exactly the registered callback; with
\* no callback registered nothing is invoked and nothing is sent; and the
\* receive loop runs on after every dispatch.
C11_Claimed ==
    [][dispatched' # <<>> =>
        /\ IF DispatchedCmd \in TableCmds
           THEN Len(handlers') = 1 /\ handlers'[1] # "s_packet_callback"
           ELSE IF s_packet_callback # "NULL"
                THEN handlers' = <<"s_packet_callback">>
                ELSE handlers' = <<>> /\ tx_out' = <<>>
        /\ running']_vars

\* the commands whose case does work of its own, lines 384-468
BuiltinCmds == {CMD_NETWORK_STATUS, CMD_GET_NETWORK_TIME, CMD_GET_DEVICE_INFO,
                CMD_CLEAR_DATA}

\* C11, amended: a dispatch invokes exactly the built-in handler when the
\* command is 0x23, 0x10, 0x06 or 0x05; for 0x01, 0x1A and every command
\* outside the table it invokes exactly the registered callback, and with no
\* callback registered it invokes nothing and sends nothing.  The receive loop
\* runs on after every dispatch but that of a 0x05 whose clear-data succeeded,
\* which restarts the device.
C11_DispatchAmended ==
    [][dispatched' # <<>> =>
        /\ IF DispatchedCmd \in BuiltinCmds
           THEN Len(handlers') = 1 /\ handlers'[1] # "s_packet_callback"
           ELSE IF s_packet_callback # "NULL"
                THEN handlers' = <<"s_packet_callback">>
                ELSE handlers' = <<>> /\ tx_out' = <<>>
        /\ ~running' => DispatchedCmd = CMD_CLEAR_DATA /\ nvs' = "ready"]_vars

C11_Witness ==
    /\ dispatched # <<>>
    /\ PktCommand(dispatched[1]) = CMD_STATE_REPORT_ACK
    /\ s_packet_callback = "callback"
    /\ handlers = <<"s_packet_callback">>
    /\ running

\* an item of the pending list without its timestamp
ItemContent(item) == <<item.id, item.state_type, item.state_value, item.retry_count>>

\* the step of state_report_upload that returns from add_pending_item
UploadAddStep == upload_pc = "idle" /\ upload_pc' = "send"
\* the step of state_report_upload from is_connected to its return
UploadSendStep == upload_pc = "send" /\ upload_pc' = "idle"

\* the list has grown by one item at its tail: the request being served, with
\* retry_count 0
AppendedAtTail ==
    /\ Len(s_pending_list') = Len(s_pending_list) + 1
    /\ SubSeq(s_pending_list', 1, Len(s_pending_list)) = s_pending_list
    /\ ItemContent(s_pending_list'[Len(s_pending_list')])
         = <<upload_item'.id, upload_item'.state_type, upload_item'.state_value, 0>>

\* one 0x42 packet for the request being served is handed to the UART exactly
\* when the cached UTC time is not 0, and the list is left as it is
SentIffConnected ==
    /\ s_pending_list' = s_pending_list
    /\ IF s_utc_time # 0
       THEN /\ Len(tx_out') = 1
            /\ tx_out'[1].pkt = create_state_report_packet(upload_item.state_type,
                                                           upload_item.state_value)
            /\ PktCommand(tx_out'[1].pkt) = CMD_STATE_REPORT
       ELSE tx_out' = <<>>

AckStep == wire' # wire /\ wire' \subseteq wire

\* C13: state_report_ack_handler removes exactly the first item of the pending
\* list and leaves every other item, their order, their timestamps and their
\* retry counts as they were; on an empty list it changes nothing.
C13_AckRemovesFirst ==
    [][AckStep =>
        /\ IF s_pending_list = <<>>
           THEN s_pending_list' = <<>>
           ELSE /\ Len(s_pending_list') = Len(s_pending_list) - 1
                /\ \A i \in 1..Len(s_pending_list') :
                       s_pending_list'[i] = s_pending_list[i + 1]
        /\ tx_out' = <<>>
        /\ UNCHANGED <<timeVars, clock, retx_pc, retx_now, upload_pc>>]_vars

C13_Witness ==
    /\ Len(s_pending_list) = 1
    /\ s_pending_list[1].id = 2
    /\ s_pending_list[1].retry_count > 0
    /\ fate[1] = "removed"
    /\ 1 \in acked

WatchdogsQuiet ==
    /\ current_status >= NET_STATUS_CONNECTED_ROUTER => timer_5s # "active"
    /\ current_status = NET_STATUS_CONNECTED_SERVER => timer_12s # "active"

\* C14 as claimed: at a status of CONNECTED_ROUTER or above the 5 s watchdog is
\* not armed and at CONNECTED_SERVER the 12 s watchdog is not armed, whatever
\* the order of net_sta_init, net_sta_start_monitor and the status updates.
C14_Claimed == WatchdogsQuiet

\* C14: every change of the status leaves the watchdogs of the thresholds it
\* reached not armed, and no step other than net_sta_start_monitor arms one at
\* a status at or above its threshold.
C14_QuietUnlessRestarted ==
    [][/\ current_status' # current_status => WatchdogsQuiet'
       /\ (net_call'.op # "monitor" /\ WatchdogsQuiet) => WatchdogsQuiet']_vars

C14_Witness ==
    /\ current_status = NET_STATUS_CONNECTED_ROUTER
    /\ net_call.op \in {"event", "update"}
    /\ net_call.req = NET_STATUS_CONNECTED_ROUTER
    /\ timer_5s = "NULL"
    /\ timer_12s = "active"

\* the value of the four bytes data[1..4] of the source read least significant first
DataUtc(p) ==
    PktData(p)[2] + 256 * PktData(p)[3] + 65536 * PktData(p)[4]
        + 16777216 * PktData(p)[5]

\* the byte data[5] of the source read as an int8_t
DataZone(p) == IF PktData(p)[6] >= 128 THEN PktData(p)[6] - 256 ELSE PktData(p)[6]

CarriesCachedTime(p) == DataUtc(p) = s_utc_time /\ DataZone(p) = s_time_zone

\* C15: a step that changes the status to CONNECTED_SERVER passes exactly one
\* packet to the transport, with command 0x23, data[0] = 4, data[1..4] the
\* cached UTC seconds least significant byte first, data[5] the cached
\* timezone code, the two header bytes and a valid checksum.
C15_ServerNotification ==
    [][(current_status' = NET_STATUS_CONNECTED_SERVER
            /\ current_status # NET_STATUS_CONNECTED_SERVER)
        => /\ Len(tx_out') = 1
           /\ ValidPacket(tx_out'[1].pkt)
           /\ PktCommand(tx_out'[1].pkt) = CMD_NETWORK_STATUS
           /\ PktData(tx_out'[1].pkt)[1] = NET_STATUS_CONNECTED_SERVER
           /\ CarriesCachedTime(tx_out'[1].pkt)]_vars

C15_Witness ==
    /\ current_status = NET_STATUS_CONNECTED_SERVER
    /\ net_call.op = "event"
    /\ net_call.arg = "MQTT_CONNECTED"
    /\ s_utc_time = 2147417596
    /\ s_time_zone = -35
    /\ Len(tx_out) = 1
    /\ PktData(tx_out[1].pkt) = <<4, 252, 253, 254, 127, 221>>

\* C16 as claimed: every 0x23 notification, whatever the status it reports,
\* carries the cached UTC seconds in data[1..4] and the cached timezone code
\* in data[5].
C16_Claimed ==
    [][\A i \in Notifications(tx_out') : CarriesCachedTime(tx_out'[i].pkt)]_vars

UserContext == <<s_current_user_type, s_current_user_id>>

\* C17: unlock_handle_mcu_packet acts only on 0x12 received while the flag is
\* set: it then stops the timer and clears the flag, in this order and with
\* the user context untouched; entered with any other command, or with 0x12
\* while the flag is clear, it leaves flag, user context and timer unchanged.
C17_AckHandler ==
    [][/\ unlock_handle_mcu_packet =>
            /\ UNCHANGED <<s_unlock_in_progress, UserContext, s_unlock_timer>>
            /\ ack_pc' = IF s_unlock_in_progress /\ mcu_unanswered' # mcu_unanswered
                         THEN "stop" ELSE "idle"
       /\ (ack_pc = "stop" /\ ack_pc' # "stop") =>
            /\ ack_pc' = "clear"
            /\ s_unlock_timer' = 0
            /\ UNCHANGED <<s_unlock_in_progress, UserContext>>
       /\ (ack_pc = "clear" /\ ack_pc' # "clear") =>
            /\ ack_pc' = "idle"
            /\ ~s_unlock_in_progress'
            /\ UNCHANGED <<s_unlock_timer, UserContext>>
       /\ tx_out' = <<>> \/ ack_pc' = ack_pc]_vars

C17_Witness ==
    /\ ack_pc = "clear"
    /\ s_unlock_in_progress
    /\ s_unlock_timer = 0
    /\ unlock_ret["task1"] = "ESP_OK"
    /\ \A t \in UnlockTasks : unlock_pc[t] = "idle"
    /\ cb_pc = "idle"
    /\ mcu_unanswered = 0

\* C18: a request that was accepted (flag set) is always followed by a state
\* with the flag clear, whether or not the MCU answers, and the steps of the
\* timeout (expiry and unlock_timeout_cb) pass no packet to the transport.
C18_ReturnsToIdle ==
    /\ s_unlock_in_progress ~> ~s_unlock_in_progress
    /\ [][cb_pc' # cb_pc => tx_out' = <<>>]_vars

C18_Witness ==
    /\ ~s_unlock_in_progress
    /\ unlock_ret["task1"] = "ESP_OK"
    /\ unlock_ret["task2"] = "none"
    /\ mcu_unanswered = 1
    /\ s_unlock_timer = 0
    /\ cb_pc = "idle"
    /\ \A t \in UnlockTasks : unlock_pc[t] = "idle"

\* C19 as claimed: unlock_timeout_cb ends only the request whose timeout period
\* has elapsed: it never clears the flag while unlockTimer, armed again by a
\* later request, is still running.
C19_Claimed ==
    [][(cb_pc = "clear" /\ cb_pc' = "idle" /\ ~s_unlock_in_progress')
        => s_unlock_timer = 0]_vars

ListContent(list) == [i \in 1..Len(list) |-> ItemContent(list[i])]
InCritical(t) == lock_pc[t] \in {"held", "drop", "give"}

\* C20: a step that reads or changes the pending list is taken by the task
\* holding the mutex, and the items of the list change in no other step; the
\* mutex is held only by a task between its xSemaphoreTake and its
\* xSemaphoreGive and is always released again, so that the mutex is free
\* again and again for the tasks waiting for it.
C20_MutexDiscipline ==
    /\ [][/\ list_access' # "none" =>
               s_state_report_mutex = list_access' /\ s_state_report_mutex' = list_access'
          /\ ListContent(s_pending_list') # ListContent(s_pending_list) =>
               list_access' # "none"]_vars
    /\ [](\A t \in LockTasks : s_state_report_mutex = t <=> InCritical(t))
    /\ (s_state_report_mutex # "free") ~> (s_state_report_mutex = "free")

C20_Witness ==
    /\ lock_pc["retx"] = "give"
    /\ list_access = "retx"
    /\ s_state_report_mutex = "retx"
    /\ lock_pc["upload"] = "take"
    /\ lock_pc["rx"] = "take"
    /\ s_pending_list = <<>>
    /\ uploads = MaxUploads

ReplyCmds == {CMD_GET_DEVICE_INFO, CMD_GET_NETWORK_TIME, CMD_CLEAR_DATA}

\* C21 as claimed: the dispatch of a request that expects a reply (here 0x06,
\* 0x10 and 0x05, the ones the dispatcher serves itself) passes at least one
\* response packet to the transport, on every path through its handler.
C21_Claimed ==
    [][(dispatched' # <<>> /\ DispatchedCmd \in ReplyCmds) => tx_out' # <<>>]_vars

MsgAcks(out) == { i \in 1..Len(out) : PktCommand(out[i].pkt) = CMD_MSG_UPLOAD_RSP }
MsgFlags == <<s_remote_req_in_progress, s_remote_req_timer, s_unlocked_in_progress,
              s_unlocked_timer>>
DuplicateEvent(p) ==
    \/ PktData(p)[1] = EVENT_UNLOCK_REQUEST /\ s_remote_req_in_progress
    \/ PktData(p)[1] = EVENT_UNLOCKED /\ s_unlocked_in_progress

\* C22: a 0x03 upload whose event (data[0]) is unlock-request or unlocked and
\* arrives while the flag of that event is set is answered with exactly one
\* 0x02 packet with data[0] = 2 and leaves both flags and both timers as they
\* are; every other 0x03 upload is answered with exactly one 0x02 packet with
\* data[0] = 0.
C22_DuplicateRejected ==
    [][(dispatched' # <<>> /\ DispatchedCmd = CMD_MSG_UPLOAD)
        => /\ Len(tx_out') = 1
           /\ MsgAcks(tx_out') = {1}
           /\ ValidPacket(tx_out'[1].pkt)
           /\ IF DuplicateEvent(dispatched'[1])
              THEN PktData(tx_out'[1].pkt)[1] = 2 /\ UNCHANGED MsgFlags
              ELSE PktData(tx_out'[1].pkt)[1] = 0]_vars

C22_Witness ==
    /\ dispatched # <<>>
    /\ PktCommand(dispatched[1]) = CMD_MSG_UPLOAD
    /\ PktData(dispatched[1])[1] = EVENT_UNLOCK_REQUEST
    /\ s_remote_req_in_progress
    /\ s_remote_req_timer = "active"
    /\ mqtt_out = <<>>
    /\ Len(tx_out) = 1
    /\ PktData(tx_out[1].pkt)[1] = 2

\* C23: the dispatch of a 0x05 packet passes exactly one 0x02 response to the
\* transport; the device restarts only with the storage erased and
\* initialised again and the response then has data[0] = 0; otherwise the
\* response has data[0] = 2, the device runs on and the clear-data mutex is
\* free.
C23_ClearData ==
    [][(dispatched' # <<>> /\ DispatchedCmd = CMD_CLEAR_DATA)
        => /\ Len(tx_out') = 1
           /\ ValidPacket(tx_out'[1].pkt)
           /\ PktCommand(tx_out'[1].pkt) = CMD_WIFI_RESPONSE
           /\ IF running'
              THEN /\ PktData(tx_out'[1].pkt)[1] = 2
                   /\ clear_data_mutex' = "free"
              ELSE /\ PktData(tx_out'[1].pkt)[1] = 0
                   /\ nvs' = "ready"]_vars

C23_Witness ==
    /\ dispatched # <<>>
    /\ PktCommand(dispatched[1]) = CMD_CLEAR_DATA
    /\ running
    /\ nvs = "erased"
    /\ clear_data_mutex = "free"
    /\ Len(tx_out) = 1
    /\ PktData(tx_out[1].pkt)[1] = 2

\* the check of the receiver, over the whole length of the packet
Verifies(p) ==
    /\ p[1] = HEADER0
    /\ p[2] = HEADER1
    /\ p[Len(p)] = uart_comm_calc_checksum(p, Len(p) - 1)
    /\ Len(p) = PACKET_SIZE => ChecksumOk(p)

\* C24: every packet a module builds, for every command byte and payload,
\* starts with AA 55 and ends with the checksum of the bytes before it, so
\* that the receiver's recomputation agrees with its checksum byte.
C24_EncodeVerifies == \A i \in 1..Len(tx_out) : Verifies(tx_out[i].pkt)

C24_Witness ==
    /\ Len(tx_out) = 1
    /\ tx_out[1].pkt = <<HEADER0, HEADER1, 255, 255, 255, 255, 255, 255, 255, 248>>

\* C25: a well-formed frame with any single bit of any of its ten bytes
\* inverted fails the checksum verification, and the intact frame passes it.
C25_SingleBitFlipDetected ==
    rx_ring = <<>> =>
        /\ scenario.kind = "flip" => dispatched = <<>>
        /\ scenario.kind = "intact" => dispatched = <<scenario.frame>>

\* bit 7 of the fourth payload byte of a frame of 0xFF bytes was inverted
C25_Witness ==
    /\ rx_ring = <<>>
    /\ scenario.kind = "flip"
    /\ scenario.at = 56
    /\ scenario.frame = BuildPacket(255, <<255, 255, 255, 0, 0, 255>>)
    /\ packet = scenario.stream
    /\ packet[7] = 128
    /\ dispatched = <<>>

\* C26: when well-formed frames keep arriving back-to-back after a
\* desynchronisation, the framer eventually dispatches one of them, whatever
\* the payload holds.
C26_Claimed == <>(\E i \in 1..Len(dispatched) : dispatched[i] = scenario.frame)

\* the step of the retransmit task that makes its pass over the list
RetxPassStep == retx_pc = "sampled" /\ retx_pc' = "delay"

\* the requests whose items the pass about to be made hands to the UART
Retransmitted ==
    LET r == RetxScan(s_pending_list, 1, retx_now,
                      [i \in 1..Len(s_pending_list) |-> TRUE])
    IN  { r.ids[i] : i \in 1..Len(r.ids) }

\* C27: an item the retransmit task retransmits was enqueued or last sent
\* at least STATE_REPORT_TIMEOUT_MS before, whenever state_report_upload
\* ran between the task's sample of the time and its pass.
C27_Claimed ==
    [][RetxPassStep =>
          \A i \in 1..Len(s_pending_list) :
              s_pending_list[i].id \in Retransmitted
                  => clock - s_pending_list[i].last_sent_time >= STATE_REPORT_TIMEOUT_MS]_vars

\* C28: when a pass of the retransmit task ends, no item of the pending
\* list has a retry_count that has reached STATE_REPORT_MAX_RETRIES,
\* whatever its place in the list.
C28_Claimed ==
    [][RetxPassStep =>
          \A i \in 1..Len(s_pending_list') :
              s_pending_list'[i].retry_count < STATE_REPORT_MAX_RETRIES]_vars

\* a packet of the latest step reports the state of item
ResentNow(item) ==
    \E j \in 1..Len(tx_out') :
        tx_out'[j].pkt = create_state_report_packet(item.state_type, item.state_value)

\* C29: a pass made while connected resends every item of the list that
\* has timed out and whose retry_count is below the cap, whatever the items
\* ahead of it are.
C29_Claimed ==
    [][RetxPassStep =>
          \A i \in 1..Len(s_pending_list) :
              (TimedOut(retx_now, s_pending_list[i].last_sent_time)
                  /\ CanRetry(s_pending_list[i]))
              => ResentNow(s_pending_list[i])]_vars

\* the latest step is a pass that hands a packet of request id to the UART
Attempt(id) ==
    /\ RetxPassStep
    /\ \E k \in 1..Len(s_pending_list) :
          s_pending_list[k].id = id /\ ResentNow(s_pending_list[k])

\* C30: the retransmission attempts for an item, failed sends included,
\* are at most STATE_REPORT_MAX_RETRIES; in particular they come to an end
\* for every item, also when every send keeps failing.
C30_Claimed == \A id \in 1..MaxScanItems : <>[][~Attempt(id)]_vars

\* C31: while the module stays connected and the sends succeed, once the
\* calls of state_report_upload have come to an end the pending list
\* becomes empty and stays empty; every item has left it by an ack or by
\* the drop that follows its last retry.
C31_ListDrains ==
    /\ <>[](s_pending_list = <<>>)
    /\ [](\A id \in Requests :
            (fate[id] # "none" /\ ~InList(id)) => fate[id] \in {"removed", "dropped"})

C31_Witness ==
    /\ s_pending_list = <<>>
    /\ uploads = MaxUploads
    /\ fate[1] = "removed"
    /\ fate[2] = "dropped"
    /\ sent[2] = 1 + STATE_REPORT_MAX_RETRIES

\* C32: an event raises the network status by exactly one step of
\* NOT_CONFIGURED, CONNECTING_ROUTER, CONNECTED_ROUTER, CONNECTED_SERVER,
\* whatever the order of the Wi-Fi and MQTT events.
C32_Claimed ==
    [][(net_call'.op = "event" /\ current_status' > current_status)
        => current_status' = current_status + 1]_vars

\* C33: when pvPortMalloc fails for the item of a request,
\* state_report_upload leaves the pending list as it is and sends no
\* state-report packet for the request.
C33_Claimed ==
    /\ [][(UploadAddStep /\ fate'[upload_item'.id] = "unallocated")
            => UNCHANGED s_pending_list]_vars
    /\ [][(UploadSendStep /\ fate[upload_item.id] = "unallocated")
            => (tx_out' = <<>> /\ UNCHANGED s_pending_list)]_vars

(***************************************************************************)
(* Claims about cc_event_reset.                                            *)
(***************************************************************************)
\* the outermost call of cc_event_reset returns in the latest step
CcReturns == Len(cc_stack) = 1 /\ cc_stack' = <<>>

\* C34 as claimed: every call of cc_event_reset terminates, its nesting
\* stays bounded, and it returns ESP_OK with the state machine in
\* CC_STATE_INIT and the state mutex released.
C34_Claimed ==
    /\ [](Len(cc_stack) <= 2)
    /\ (cc_stack # <<>>) ~> (cc_stack = <<>>)
    /\ [][CcReturns => /\ cc_ret' = "ESP_OK"
                       /\ cc_current_state' = "CC_STATE_INIT"
                       /\ cc_state_mutex' = "free"]_vars

\* C34, amended: every call of cc_event_reset terminates and never nests
\* deeper than one call inside the other, the inner call failing with
\* ESP_ERR_TIMEOUT after its wait for the mutex the outer call holds.  A
\* call returns ESP_OK with the state machine in CC_STATE_INIT and the
\* mutex released, except when the mutex cannot be created: it then
\* returns ESP_ERR_NO_MEM with no mutex and the state as it was.
C34_ResetTerminates ==
    /\ [](Len(cc_stack) <= 2)
    /\ (cc_stack # <<>>) ~> (cc_stack = <<>>)
    /\ [][(Len(cc_stack) = 2 /\ Len(cc_stack') = 1) => cc_ret' = "ESP_ERR_TIMEOUT"]_vars
    /\ [][CcReturns =>
            \/ /\ cc_ret' = "ESP_OK"
               /\ cc_current_state' = "CC_STATE_INIT"
               /\ cc_state_mutex' = "free"
            \/ /\ cc_ret' = "ESP_ERR_NO_MEM"
               /\ cc_state_mutex' = "NULL"
               /\ ~cc_is_initialized'
               /\ UNCHANGED cc_current_state]_vars

C34_Witness ==
    /\ cc_stack = <<>>
    /\ cc_ret = "ESP_OK"
    /\ cc_current_state = "CC_STATE_INIT"
    /\ cc_state_mutex = "free"
    /\ cc_is_initialized

\* C35: for an offset of h whole hours and q quarter-hours the cached
\* timezone code is h * 10 + q, a value of -128..127 that no wrap produced.
C35_Claimed ==
    [][net_call'.op = "zone" =>
          LET h == TruncDiv(net_call'.req, 4)
              q == net_call'.req - 4 * h
          IN  /\ s_time_zone' = h * 10 + q
              /\ s_time_zone' \in (0 - 128)..127]_vars

\* C36: the receive task finds s_unlock_in_progress set whenever it enters
\* unlock_handle_mcu_packet with the 0x12 the MCU sent in answer to a 0x13:
\* the flag is set before an ack of the command can be processed.
C36_Claimed ==
    [][mcu_unanswered' < mcu_unanswered => s_unlock_in_progress]_vars

\* C37: with net_sta_update_status running in the Wi-Fi and the MQTT event
\* context at once, no two consecutive notifications carry the same status
\* byte, and each notification carries the status its own call recorded.
C37_Claimed ==
    /\ [][(tx_out' # <<>> /\ tx_out'[1].ok) => tx_out'[1].pkt[4] # last_notified]_vars
    /\ [][\A t \in UpdateTasks :
            (upd_pc[t] = "notify" /\ upd_pc'[t] = "idle")
                => tx_out'[1].pkt[4] = upd_status[t]]_vars

\* C38: every item state_report_ack_handler removes has been transmitted at
\* least once; an ack never removes an item that was only cached.
C38_Claimed ==
    [][(AckStep /\ s_pending_list # <<>>) => sent[Head(s_pending_list).id] >= 1]_vars

\* the item of the call in progress, as the pending list holds it
OwnItems(list, id) == { i \in 1..Len(list) : list[i].id = id }

\* C39 as claimed: when state_report_upload returns the error of a failed
\* immediate send, the item it enqueued is in the pending list with
\* retry_count 0; the error return does not roll back the enqueue.
C39_Claimed ==
    [][(UploadSendStep /\ upload_ret' = "ESP_FAIL" /\ fate[upload_item.id] # "unallocated")
        => \E i \in OwnItems(s_pending_list', upload_item.id) :
               s_pending_list'[i].retry_count = 0]_vars

\* C40: a UART_FIFO_OVF or UART_BUFFER_FULL event empties the input and
\* dispatches nothing, and leaves the framer state and the partially
\* accumulated packet as they were, so that the bytes read before and after
\* the flush go into the same candidate frame.
C40_FlushKeepsFramer ==
    [][UartFlush => (rx_ring' = <<>> /\ dispatched' = <<>> /\ UNCHANGED <<state, packet>>)]_vars

\* a candidate frame completed from the first k bytes of one frame, read
\* before a flush discarded the rest, and the first bytes of the next frame
C40_Witness ==
    /\ flushed
    /\ state = 0
    /\ scenario.at = 0
    /\ \E k \in 1..(PACKET_SIZE - 1) :
           /\ packet = SubSeq(scenario.frame, 1, k) \o SubSeq(scenario.frame, 1, PACKET_SIZE - k)
           /\ rx_ring = SubSeq(scenario.frame, PACKET_SIZE - k + 1, PACKET_SIZE)
    /\ packet # scenario.frame
====
